---- MODULE Spec2Model ----
(***************************************************************************)
(* Model of the commercial real-estate crawler: the two site adapters      *)
(* (LoopNetScraper, CommercialMLSScraper), their listing extractors, the   *)
(* ScraperManager orchestrator and the ScraperService threads that call    *)
(* it.                                                                     *)
(*                                                                         *)
(* Python strings are modelled as sequences of symbols.  A symbol is a     *)
(* piece of text that the parsing code never looks inside ("More details", *)
(* "for", " ", "-", a word); the string is the concatenation of its        *)
(* symbols, so substring search, replace, split and strip work on the      *)
(* symbol sequence exactly as they do on the characters.                   *)
(***************************************************************************)
EXTENDS Integers, Sequences, FiniteSets, TLC

(***************************************************************************)
(* Bounds of the model.                                                    *)
(***************************************************************************)
\* number of top-level nodes (bare anchors or listing cards) of a LoopNet page
MaxNodes == 2
\* number of listing cards of a CommercialMLS grid
MaxCards == 2

\* Python None / an absent attribute or element, as a reserved one-symbol string
None == <<"<None>">>

(***************************************************************************)
(* Python str operations on symbol sequences.                              *)
(***************************************************************************)
SP == " "

\* s[i:i+len(pat)] == pat
MatchAt(s, pat, i) ==
    /\ i + Len(pat) - 1 <= Len(s)
    /\ \A k \in 1..Len(pat) : s[i + k - 1] = pat[k]

\* pat in s
Contains(s, pat) == \E i \in 1..(Len(s) + 1) : MatchAt(s, pat, i)

\* s.startswith(pat)
StartsWith(s, pat) == MatchAt(s, pat, 1)

RECURSIVE ReplaceFrom(_, _, _)
\* s[i:].replace(pat, ''), pat non-empty: leftmost non-overlapping occurrences
ReplaceFrom(s, pat, i) ==
    IF i > Len(s) THEN <<>>
    ELSE IF MatchAt(s, pat, i) THEN ReplaceFrom(s, pat, i + Len(pat))
    ELSE <<s[i]>> \o ReplaceFrom(s, pat, i + 1)

\* s.replace(pat, '')
Remove(s, pat) == ReplaceFrom(s, pat, 1)

RECURSIVE SplitFrom(_, _, _, _)
\* s.split(sep) from position i on, cur being the piece under construction
SplitFrom(s, sep, i, cur) ==
    IF i > Len(s) THEN <<cur>>
    ELSE IF MatchAt(s, sep, i) THEN <<cur>> \o SplitFrom(s, sep, i + Len(sep), <<>>)
    ELSE SplitFrom(s, sep, i + 1, Append(cur, s[i]))

\* s.split(sep): never an empty list, ''.split(sep) == ['']
Split(s, sep) == SplitFrom(s, sep, 1, <<>>)

RECURSIVE LStrip(_)
LStrip(s) == IF s # <<>> /\ Head(s) = SP THEN LStrip(Tail(s)) ELSE s

RECURSIVE RStrip(_)
RStrip(s) ==
    IF s # <<>> /\ s[Len(s)] = SP THEN RStrip(SubSeq(s, 1, Len(s) - 1)) ELSE s

\* s.strip()
Strip(s) == RStrip(LStrip(s))

RECURSIVE Squeeze(_)
\* runs of whitespace inside a stripped string collapse to one space
Squeeze(s) ==
    IF Len(s) < 2 THEN s
    ELSE IF s[1] = SP /\ s[2] = SP THEN Squeeze(Tail(s))
    ELSE <<s[1]>> \o Squeeze(Tail(s))

\* ' '.join(s.strip().split())
NormalizeText(s) == Squeeze(Strip(s))

\* the truth value of a str (or of None)
Truthy(s) == s # None /\ s # <<>>

(***************************************************************************)
(* LoopNet results page.                                                   *)
(*                                                                         *)
(* An anchor is [href, title]; either attribute may be absent (None).  A   *)
(* page is a sequence of nodes in document order.  A node is a bare        *)
(* anchor, or a listing card (div.placard-content) with the anchors it     *)
(* contains and the text of its field elements (None: no such element).    *)
(***************************************************************************)
MORE_DETAILS == <<"More details", SP, "for">>            \* 'More details for'
MORE_DETAILS_SP == <<"More details", SP, "for", SP>>     \* 'More details for '
DASH == <<SP, "-", SP>>                                  \* ' - '
FOR_SP == <<"for", SP>>                                  \* 'for '

URL1 == <<"https://www.loopnet.com/Listing/1">>
URL2 == <<"https://www.loopnet.com/Listing/2">>
PageUrl == <<"https://www.loopnet.com/search">>
\* a relative detail URL
LISTING_1 == <<"/listing/1">>

\* "More details for 123 Main St - Retail for Sale"
TitleFull ==
    MORE_DETAILS_SP \o <<"123", SP, "Main", SP, "St">> \o DASH
        \o <<"Retail", SP, "for", SP, "Sale">>
\* "More details for " : nothing after the prefix
TitleBare == MORE_DETAILS_SP
\* "More details for123 Main St": matched by the selector, no space after "for"
TitleNoSpace == MORE_DETAILS \o <<"123", SP, "Main", SP, "St">>
\* "More details for 123 Main St - for Sale": no type before 'for '
TitleNoType ==
    MORE_DETAILS_SP \o <<"123", SP, "Main", SP, "St">> \o DASH \o <<"for", SP, "Sale">>

Titles == {TitleFull, TitleBare, TitleNoSpace, TitleNoType}
Hrefs == {<<>>, URL1, URL2}

Anchor(h, t) == [href |-> h, title |-> t]

\* anchors that carry a title the detail-link selector matches
TitledAnchors ==
    {Anchor(h, TitleFull) : h \in Hrefs \cup {None}}
    \cup {Anchor(URL1, t) : t \in Titles}
\* div.placard-pseudo > a : an untitled anchor inside a card
PseudoAnchors == {Anchor(h, None) : h \in {None, <<>>, URL1}}

CardFields(a, l, p, ty, d) ==
    [address |-> a, location |-> l, price |-> p, property_type |-> ty, priceDepth |-> d]

\* a card whose four field elements are all present
FullCard ==
    CardFields(<<"123", SP, "Main", SP, "St">>, <<"Seattle,", SP, "WA">>,
               <<SP, "$", "500,000", SP>>, <<"Retail">>, 3)
\* a card whose address and type elements hold no text, without location and price
BlankCard == CardFields(<<>>, None, None, <<SP>>, 0)

\* a card with address, price and type elements and no location element
SingleResultCard ==
    CardFields(<<"123", SP, "Main", SP, "St">>, None, <<"$", "500,000">>, <<"Retail">>, 3)

CardKinds == {FullCard, BlankCard}

\* the fields of a node that holds no field element at all
NoFields == CardFields(None, None, None, None, 0)

BareNode(a) == [kind |-> "anchor", anchors |-> <<a>>, fields |-> NoFields]
\* div.placard-content
CardNode(as, f) == [kind |-> "card", anchors |-> as, fields |-> f]
\* .property-card or article.placard
AltCardNode(as, f) == [kind |-> "altcard", anchors |-> as, fields |-> f]

Nodes ==
    {BareNode(a) : a \in TitledAnchors}
    \cup {CardNode(<<a>>, f) : a \in TitledAnchors, f \in CardKinds}
    \cup {CardNode(<<p, Anchor(URL2, TitleFull)>>, FullCard) : p \in PseudoAnchors}
    \cup {CardNode(<<p>>, FullCard) : p \in PseudoAnchors}
    \cup {AltCardNode(<<Anchor(h, None)>>, FullCard) : h \in {URL1, URL2}}
    \cup {CardNode(<<Anchor(LISTING_1, t)>>, SingleResultCard) : t \in {None, TitleFull}}

SeqsUpTo(S, n) == UNION {[1..k -> S] : k \in 0..n}

LoopNetPages == SeqsUpTo(Nodes, MaxNodes)

(***************************************************************************)
(* The live DOM at the time of the last-resort query: the snapshot's nodes *)
(* followed by nodes injected after the snapshot was taken; the query may  *)
(* also raise.                                                             *)
(***************************************************************************)
LiveDom(late, raises) == [late |-> late, raises |-> raises]

LiveDoms ==
    { LiveDom(<<>>, FALSE),
      LiveDom(<<BareNode(Anchor(URL1, TitleFull))>>, FALSE),
      LiveDom(<<BareNode(Anchor(<<>>, TitleBare))>>, FALSE),
      LiveDom(<<>>, TRUE) }

\* the ways the browser can answer during one pass: the live DOM, and whether
\* driver.page_source returned
BrowserAnswers ==
    {[live |-> l, source_ok |-> TRUE] : l \in LiveDoms}
    \cup {[live |-> LiveDom(<<>>, FALSE), source_ok |-> FALSE]}

(***************************************************************************)
(* LoopNetScraper._extract_listings                                        *)
(***************************************************************************)
\* the extractor's processed_urls when it last returned (empty before any call)
VARIABLE processed_urls

ADDRESS_NA == <<"Address", SP, "not", SP, "available">>
TYPE_NA == <<"Type", SP, "not", SP, "available">>
PRICE_NA == <<"Price", SP, "not", SP, "available">>
PRICE_NOT_EXTRACTED == <<"Price", SP, "not", SP, "extracted", SP, "directly">>
TYPE_NOT_EXTRACTED == <<"Type", SP, "not", SP, "extracted", SP, "directly">>
\* f"{field} not available"
FieldNA(field) == <<field, SP, "not", SP, "available">>

\* range(5): the ancestor levels the link scan looks at for a price element
MaxAncestorLevels == 5

Listing(a, p, ty, u) == [address |-> a, price |-> p, property_type |-> ty, url |-> u]

RECURSIVE FlattenFrom(_, _)
\* the anchors of the page from node i on, in document order, each with its node
FlattenFrom(page, i) ==
    IF i > Len(page) THEN <<>>
    ELSE [k \in 1..Len(page[i].anchors) |-> [a |-> page[i].anchors[k], node |-> page[i]]]
            \o FlattenFrom(page, i + 1)

AllAnchors(page) == FlattenFrom(page, 1)

\* soup.select("a[title*='More details for']")
DetailLinks(page) ==
    LET Match(x) == x.a.title # None /\ Contains(x.a.title, MORE_DETAILS)
    IN  SelectSeq(AllAnchors(page), Match)

\* the price the link scan finds walking up from a link (lines 328-340)
NearbyPrice(node) ==
    IF /\ node.fields.price # None
       /\ node.fields.priceDepth \in 1..MaxAncestorLevels
       /\ Contains(node.fields.price, <<"$">>)
    THEN Strip(node.fields.price)
    ELSE PRICE_NA

\* the record the link scan builds from a title that holds 'More details for '
ListingFromTitle(x) ==
    LET title_content == Remove(x.a.title, MORE_DETAILS_SP)
        parts == Split(title_content, DASH)
        full_address == IF Len(parts) > 0 THEN parts[1] ELSE ADDRESS_NA
        property_type ==
            IF Len(parts) > 1 /\ Contains(parts[2], FOR_SP)
            THEN Strip(Split(parts[2], FOR_SP)[1])
            ELSE TYPE_NA
    IN  Listing(full_address, NearbyPrice(x.node), property_type, x.a.href)

\* LinkScanStep as it would be without the processed_urls test
LinkScanStepNoDedup(acc, x) ==
    IF x.a.href = None THEN acc
    ELSE LET title == IF x.a.title = None THEN <<>> ELSE x.a.title
             seen == acc.processed_urls \cup {x.a.href}
         IN  IF Contains(title, MORE_DETAILS_SP)
             THEN [listings |-> Append(acc.listings, ListingFromTitle(x)),
                   processed_urls |-> seen]
             ELSE [acc EXCEPT !.processed_urls = seen]

\* one iteration of "for link in detail_links" (lines 302-354)
LinkScanStep(acc, x) ==
    IF x.a.href = None THEN acc
    ELSE IF x.a.href \in acc.processed_urls THEN acc
    ELSE LET title == IF x.a.title = None THEN <<>> ELSE x.a.title
             seen == acc.processed_urls \cup {x.a.href}
         IN  IF Contains(title, MORE_DETAILS_SP)
             THEN [listings |-> Append(acc.listings, ListingFromTitle(x)),
                   processed_urls |-> seen]
             ELSE [acc EXCEPT !.processed_urls = seen]

RECURSIVE LinkScanFrom(_, _, _)
\* acc after the iterations of "for link in detail_links" from the i-th link on
LinkScanFrom(acc, s, i) ==
    IF i > Len(s) THEN acc ELSE LinkScanFrom(LinkScanStep(acc, s[i]), s, i + 1)

LinkScan(page, acc) == LinkScanFrom(acc, DetailLinks(page), 1)

\* soup.select("div.placard-content"), else soup.select(".property-card, article.placard")
PlacardContents(page) ==
    LET IsCard(n) == n.kind = "card"
        IsAlt(n) == n.kind = "altcard"
        cards == SelectSeq(page, IsCard)
    IN  IF cards # <<>> THEN cards ELSE SelectSeq(page, IsAlt)

\* LoopNetScraper._extract_listing_details, for one field of the card
FieldDetail(card, field) ==
    IF card.fields[field] # None THEN NormalizeText(card.fields[field]) ELSE FieldNA(field)

\* "Use the first link with an href attribute" (lines 375-379); None if there is none
FirstHref(links) ==
    IF \E k \in 1..Len(links) : links[k].href # None
    THEN links[CHOOSE k \in 1..Len(links) :
                 /\ links[k].href # None
                 /\ \A j \in 1..(k - 1) : links[j].href = None].href
    ELSE None

\* the record the placard scan builds for a card (lines 386-400)
ListingFromCard(card, listing_url) ==
    LET address == FieldDetail(card, "address")
        location == FieldDetail(card, "location")
        full_address ==
            IF address # ADDRESS_NA /\ Truthy(location)
            THEN address \o <<",", SP>> \o location
            ELSE address
    IN  Listing(full_address, FieldDetail(card, "price"),
                FieldDetail(card, "property_type"), listing_url)

\* one iteration of "for card in placard_contents" (lines 367-406)
PlacardScanStep(acc, card) ==
    LET links == card.anchors      \* card.select(LISTING_SELECTORS['details_link'])
        listing_url == FirstHref(links)
    IN  IF links = <<>> THEN acc
        ELSE IF ~Truthy(listing_url) \/ listing_url \in acc.processed_urls THEN acc
        ELSE [listings |-> Append(acc.listings, ListingFromCard(card, listing_url)),
              processed_urls |-> acc.processed_urls \cup {listing_url}]

RECURSIVE PlacardScanFrom(_, _, _)
\* acc after the iterations of "for card in placard_contents" from the i-th on
PlacardScanFrom(acc, s, i) ==
    IF i > Len(s) THEN acc ELSE PlacardScanFrom(PlacardScanStep(acc, s[i]), s, i + 1)

PlacardScan(page, acc) == PlacardScanFrom(acc, PlacardContents(page), 1)

\* element.get_attribute('href'): the resolved link, the page's URL for href=""
ResolveHref(h) == IF h = None THEN None ELSE IF h = <<>> THEN PageUrl ELSE h

\* driver.find_elements(By.CSS_SELECTOR, "a[title^='More details for']")
LiveElements(page, live) ==
    LET Match(x) == x.a.title # None /\ StartsWith(x.a.title, MORE_DETAILS)
    IN  SelectSeq(AllAnchors(page \o live.late), Match)

\* one iteration of "for element in elements" (lines 415-439)
LiveScanStep(acc, x) ==
    LET listing_url == ResolveHref(x.a.href)
        title == x.a.title
        address ==
            IF Truthy(title) THEN Split(Remove(title, MORE_DETAILS_SP), DASH)[1]
            ELSE ADDRESS_NA
    IN  IF ~Truthy(listing_url) \/ listing_url \in acc.processed_urls THEN acc
        ELSE [listings |-> Append(acc.listings,
                  Listing(address, PRICE_NOT_EXTRACTED, TYPE_NOT_EXTRACTED, listing_url)),
              processed_urls |-> acc.processed_urls \cup {listing_url}]

RECURSIVE LiveScanFrom(_, _, _)
\* acc after the iterations of "for element in elements" from the i-th on
LiveScanFrom(acc, s, i) ==
    IF i > Len(s) THEN acc ELSE LiveScanFrom(LiveScanStep(acc, s[i]), s, i + 1)

LiveScan(page, live, acc) ==
    IF live.raises THEN acc ELSE LiveScanFrom(acc, LiveElements(page, live), 1)

\* ProcessedUrlsAtEntry as it would be if the set outlived the call (a set kept on
\* the class or the module, or never reset)
ProcessedUrlsKept(previous) == previous

\* processed_urls = set() at the head of the extractor, whatever an earlier call
\* left in its own set
ProcessedUrlsAtEntry(previous) == {}

\* RunNext as it would be if the next scan ran whatever the earlier ones found
RunNextAlways(found) == TRUE

\* "if not listings:" before the placard scan and before the live-DOM scan
RunNext(found) == found = <<>>

\* ExtractListings as it would be with the card scan first and the link scan
\* only when the cards gave nothing
ExtractListingsCardsFirst(page, live, source_ok) ==
    LET acc0 == [listings |-> <<>>,
                 processed_urls |-> ProcessedUrlsAtEntry(processed_urls)]
        acc1 == PlacardScan(page, acc0)
        runLink == RunNext(acc1.listings)
        acc2 == IF runLink THEN LinkScan(page, acc1) ELSE acc1
        runLive == RunNext(acc2.listings)
        acc3 == IF runLive THEN LiveScan(page, live, acc2) ELSE acc2
    IN  IF source_ok
        THEN [listings |-> acc3.listings,
              processed_urls |-> acc3.processed_urls,
              used |-> [link |-> runLink, placard |-> TRUE, live |-> runLive]]
        ELSE [listings |-> <<>>, processed_urls |-> {},
              used |-> [link |-> FALSE, placard |-> FALSE, live |-> FALSE]]

\* _extract_listings: link scan, then placard scan, then the live DOM, each later
\* one only while listings is empty.  source_ok: driver.page_source returned (else
\* the outer except ends the pass); live.raises: find_elements raised.
\* "used" records which scans ran.
ExtractListings(page, live, source_ok) ==
    LET acc0 == [listings |-> <<>>,
                 processed_urls |-> ProcessedUrlsAtEntry(processed_urls)]
        acc1 == LinkScan(page, acc0)
        runPlacard == RunNext(acc1.listings)
        acc2 == IF runPlacard THEN PlacardScan(page, acc1) ELSE acc1
        runLive == RunNext(acc2.listings)
        acc3 == IF runLive THEN LiveScan(page, live, acc2) ELSE acc2
    IN  IF source_ok
        THEN [listings |-> acc3.listings,
              processed_urls |-> acc3.processed_urls,
              used |-> [link |-> TRUE, placard |-> runPlacard, live |-> runLive]]
        ELSE [listings |-> <<>>, processed_urls |-> {},
              used |-> [link |-> FALSE, placard |-> FALSE, live |-> FALSE]]

(***************************************************************************)
(* CommercialMLS grid view.                                                *)
(*                                                                         *)
(* A grid card is an a.link element: the text of its badge, name and price *)
(* elements (None: find_element raises NoSuchElementException) and the     *)
(* value get_attribute("href") returns (None: no href).                    *)
(***************************************************************************)
MLS_PROPERTY_URL == <<"https://www.commercialmls.com/property/">>

GridCard(b, n, p, h) == [badge |-> b, name |-> n, price |-> p, href |-> h]

GridHrefs ==
    { None, <<>>,
      <<"#", "/", "property", "/", "101">>,
      <<"#", "/", "listing", "/", "101">>,
      <<"#", "/", "property", "/", "102">>,
      MLS_PROPERTY_URL \o <<"101">> }

GridCards ==
    {GridCard(<<"Retail">>, <<SP, "123", SP, "Main", SP, "St">>, <<"$", "500,000">>, h) :
        h \in GridHrefs}
    \cup {GridCard(<<"Retail">>, <<"123", SP, "Main", SP, "St">>, <<SP>>, h) :
        h \in GridHrefs}
    \cup {GridCard(None, <<"123", SP, "Main", SP, "St">>, <<"$", "500,000">>, h) :
        h \in GridHrefs}

\* container_ok: the wait for the grid container succeeded (else TimeoutException)
Grid(container_ok, cards) == [container_ok |-> container_ok, cards |-> cards]

Grids == {Grid(ok, cs) : ok \in BOOLEAN, cs \in SeqsUpTo(GridCards, MaxCards)}

(***************************************************************************)
(* CommercialMLSScraper._extract_listings_from_grid                        *)
(***************************************************************************)
\* lines 364-369: "#..." hrefs become the property URL of their last path segment
GridUrl(href) ==
    IF Truthy(href) /\ StartsWith(href, <<"#">>)
    THEN LET segs == Split(href, <<"/">>)
         IN  MLS_PROPERTY_URL \o segs[Len(segs)]
    ELSE href

\* one iteration of "for card in listing_cards" (lines 347-384)
GridScanStep(acc, card) ==
    IF card.badge = None \/ card.name = None \/ card.price = None
    THEN acc                                   \* find_element raised: except, continue
    ELSE LET listing == Listing(Strip(card.name), Strip(card.price),
                                Strip(card.badge), GridUrl(card.href))
         IN  IF ~Truthy(listing.url) \/ listing.url \in acc.processed_urls THEN acc
             ELSE IF /\ Truthy(listing.property_type)
                     /\ Truthy(listing.address)
                     /\ Truthy(listing.price)
             THEN [listings |-> Append(acc.listings, listing),
                   processed_urls |-> acc.processed_urls \cup {listing.url}]
             ELSE [acc EXCEPT !.processed_urls = acc.processed_urls \cup {listing.url}]

RECURSIVE GridScanFrom(_, _, _)
\* acc after the iterations of "for card in listing_cards" from the i-th on
GridScanFrom(acc, s, i) ==
    IF i > Len(s) THEN acc ELSE GridScanFrom(GridScanStep(acc, s[i]), s, i + 1)

ExtractListingsFromGrid(grid) ==
    LET acc0 == [listings |-> <<>>,
                 processed_urls |-> ProcessedUrlsAtEntry(processed_urls)]
    IN  IF ~grid.container_ok THEN acc0
        ELSE GridScanFrom(acc0, grid.cards, 1)

(***************************************************************************)
(* State.                                                                  *)
(***************************************************************************)
VARIABLES
    \* one extraction pass on a given results page
    xpc,             \* "page": the page is loaded, "done": the extractor returned
    xsite,           \* the extractor that runs: "loopnet" or "commercialmls"
    page,            \* LoopNet: the snapshot the extractor parses
    live_dom,        \* LoopNet: what the live DOM holds beyond the snapshot
    source_ok,       \* LoopNet: driver.page_source returned
    grid,            \* CommercialMLS: the grid the extractor reads
    listings,        \* the list the extractor returned
    used_scans,      \* which LoopNet scans ran
    passes,          \* the extraction passes made before this one, in order
    \* adapters, orchestrator and service
    debug_mode,      \* BaseScraper.debug_mode of every adapter
    scraper_manager, \* ScraperService.scraper_manager: a manager id, 0 for None
    n_managers,      \* number of ScraperManager objects constructed so far
    driver,          \* self.driver of each adapter instance: a session id, 0 for None
    sessions,        \* every browser session ever started, by id
    last_run_time,   \* ScraperService.last_run_time: "None" or "set"
    thr,             \* per thread: where it is in run_scraping
    call,            \* per thread: its ScraperManager.search frame
    srch,            \* per thread: its adapter search frame
    \* one call of an interaction primitive
    click,           \* the frame of a click_element call
    wait,            \* the frame of a smart_wait call
    input,           \* the frame of an input_text_with_wait call
    dom,             \* the document _remove_overlays is run on
    types,           \* saved property types on their way to the checkboxes
    \* the service's main loop
    svc,             \* ScraperService as main and SvcStop see it, and its clock
    \* the Windows scheduled task
    sched            \* the installed task and a TaskSchedulerManager call on it

extractVars ==
    <<xpc, xsite, page, live_dom, source_ok, grid, listings, processed_urls, used_scans,
      passes>>
primVars == <<click, wait, input, dom, types>>
\* the variables of the units that are also run on their own
loopVars == <<svc, sched>>
unitVars == <<extractVars, primVars, loopVars>>
runVars ==
    <<debug_mode, scraper_manager, n_managers, driver, sessions, last_run_time, thr, call, srch>>
vars == <<extractVars, runVars, primVars, loopVars>>

(***************************************************************************)
(* The extraction pass as a state machine: the page is an input, the       *)
(* extractor is applied to it once.                                        *)
(***************************************************************************)
NoScans == [link |-> FALSE, placard |-> FALSE, live |-> FALSE]

\* the service before main runs
NoLoop == [pc |-> "none"]

\* no TaskSchedulerManager at work
NoSchedule == [pc |-> "none"]

\* time.time() not yet read into a variable (None)
NoTime == -1

\* no click_element call in progress
NoClick ==
    [pc |-> "none", by_selector |-> FALSE, max_retries |-> 0, attempt |-> 0,
     attempts |-> 0,     \* attempts begun
     method |-> 0,       \* index into click_methods
     clicked |-> FALSE,  \* a click method went through
     overlay_raised |-> FALSE,  \* _remove_overlays raised in the latest attempt
     prepared |-> <<>>,  \* the steps made ahead of the click methods in the latest attempt
     tried |-> <<>>,     \* the click methods invoked in the latest attempt, in order
     raised |-> 0,       \* how many of them raised
     result |-> FALSE]

\* no input_text_with_wait call in progress
NoInput ==
    [pc |-> "none", press_enter |-> FALSE, clear_first |-> FALSE,
     overlay_raised |-> FALSE,  \* _remove_overlays raised
     not_clickable |-> FALSE,   \* smart_wait("clickable") answered False
     focused |-> FALSE,         \* the click that focuses the element was tried
     entry |-> 0,               \* the text-entry method that went through, 0 for none
     entries_raised |-> 0,      \* text-entry methods that raised
     enter_done |-> FALSE,      \* send_keys(Keys.ENTER) went through
     error |-> FALSE,           \* an exception reached the except clause
     result |-> FALSE]

\* no saved property types being read
NoTypes ==
    [pc |-> "none", path |-> "", site |-> "",
     saved |-> <<>>,           \* property_types of the saved configuration
     property_types |-> <<>>,  \* the property_types argument of search
     checked |-> {}]           \* the checkboxes the adapter clicked

\* document.body.style: overflow, position, height
BodyStyle(overflow, position, height) ==
    [overflow |-> overflow, position |-> position, height |-> height]
\* the body as a page leaves it while a dialog is up, and with no inline style
BodyLocked == BodyStyle("hidden", "fixed", "100%")
BodyUnstyled == BodyStyle("", "", "")
\* the three assignments of the script (lines 112-114)
BodyScrollable == BodyStyle("auto", "relative", "auto")

\* no document under overlay suppression
NoDom ==
    [pc |-> "none",
     elements |-> <<>>,        \* the elements the page was loaded with
     present |-> {},           \* those of them that are in the document
     body |-> BodyUnstyled,
     loaded_body |-> BodyUnstyled,  \* body as the page was loaded
     once_present |-> {},      \* present and body as the first run left them
     once_body |-> BodyUnstyled]

\* no smart_wait call in progress
NoWait ==
    [pc |-> "none", condition_type |-> "", min_count |-> 0, timeout |-> 0,
     stable_time |-> 0, outcome |-> "", now |-> 0, start_time |-> 0,
     last_count |-> 0, stable_start |-> NoTime, result |-> FALSE,
     decided |-> NoTime,          \* the time at which the stability loop was left
     observed |-> NoTime,         \* the count seen at the latest poll that answered
     first_observed |-> NoTime,   \* the count seen at the first such poll
     unchanged_since |-> NoTime,  \* the time of the first poll of the current run of equal counts
     changes |-> 0]               \* how often a poll saw another count than the one before

\* LoopNetScraper._extract_listings on the loaded page
ExtractLoopNet ==
    /\ xpc = "page" /\ xsite = "loopnet"
    /\ \E b \in BrowserAnswers :
          LET r == ExtractListings(page, b.live, b.source_ok)
          IN  /\ live_dom' = b.live
              /\ source_ok' = b.source_ok
              /\ listings' = r.listings
              /\ processed_urls' = r.processed_urls
              /\ used_scans' = r.used
    /\ xpc' = "done"
    /\ UNCHANGED <<xsite, page, grid, passes>>
    /\ UNCHANGED runVars
    /\ UNCHANGED primVars
    /\ UNCHANGED loopVars

\* CommercialMLSScraper._extract_listings_from_grid on the loaded grid
ExtractGrid ==
    /\ xpc = "page" /\ xsite = "commercialmls"
    /\ LET r == ExtractListingsFromGrid(grid)
       IN  /\ listings' = r.listings
           /\ processed_urls' = r.processed_urls
    /\ xpc' = "done"
    /\ UNCHANGED <<xsite, page, live_dom, source_ok, grid, used_scans, passes>>
    /\ UNCHANGED runVars
    /\ UNCHANGED primVars
    /\ UNCHANGED loopVars

(***************************************************************************)
(* Adapters, ScraperManager and service threads.                           *)
(***************************************************************************)
\* ScraperManager.scrapers, in insertion order
Scrapers == <<"loopnet", "commercialmls">>
Sites == {Scrapers[i] : i \in 1..Len(Scrapers)}

Threads == {"t1", "t2"}
\* every thread can construct at most one ScraperManager
ManagerIds == 1..Cardinality(Threads)
\* an adapter instance: the scraper of one site held by one manager
Instances == ManagerIds \X Sites

NoDriver == 0      \* self.driver = None
NoManager == 0     \* self.scraper_manager = None

\* the results pages an adapter run can end up on
RunPages ==
    { <<>>,
      <<CardNode(<<Anchor(URL1, TitleFull)>>, FullCard)>>,
      <<BareNode(Anchor(URL1, TitleFull)), CardNode(<<Anchor(URL2, TitleFull)>>, FullCard)>> }
RunGrids ==
    { Grid(FALSE, <<>>),
      Grid(TRUE, <<GridCard(<<"Retail">>, <<"123", SP, "Main", SP, "St">>, <<"$", "500,000">>,
                            <<"#", "/", "property", "/", "101">>)>>) }

\* str.lower(), symbol by symbol
LowerSym(c) ==
    CASE c = "LoopNet" -> "loopnet"
      [] c = "CommercialMLS" -> "commercialmls"
      [] c = "COM" -> "com"
      [] c = "Investment" -> "investment"
      [] c = "MultiFamily" -> "multifamily"
      [] c = "Office" -> "office"
      [] c = "Retail" -> "retail"
      [] c = "Industrial" -> "industrial"
      [] OTHER -> c
Lower(w) == [i \in 1..Len(w) |-> LowerSym(w[i])]

\* website.split('.')[0].lower()
WebsiteKey(website) == Lower(Split(website, <<".">>)[1])

\* website_key in self.scrapers
IsScraperKey(key) == \E site \in Sites : key = <<site>>

\* the websites argument: omitted (None) or a list of names
Websites(given, names) == [given |-> given, names |-> names]
WebsiteInputs ==
    { Websites(FALSE, <<>>),
      Websites(TRUE, <<>>),
      Websites(TRUE, << <<"loopnet">> >>),
      Websites(TRUE, << <<"LoopNet", ".", "com">> >>),
      Websites(TRUE, << <<"commercialmls", ".", "com">> >>),
      Websites(TRUE, << <<"commercialmls", ".", "com">>, <<"loopnet", ".", "com">> >>),
      Websites(TRUE, << <<"loopnet">>, <<"CommercialMLS">> >>),
      Websites(TRUE, << <<"zillow", ".", "com">> >>),
      Websites(TRUE, << <<"loopnet", ".", "com">>, <<"zillow", ".", "com">> >>),
      Websites(TRUE, << <<"loopnet", ".", "com">>, <<"LoopNet">> >>),
      Websites(TRUE, << <<".", "com">> >>) }

\* the optional search criteria: TRUE where the argument is given (not None or '')
SearchCriteria(min_price, max_price, start_date) ==
    [min_price |-> min_price, max_price |-> max_price, start_date |-> start_date]
NoCriteria == SearchCriteria(FALSE, FALSE, FALSE)
CriteriaInputs ==
    {SearchCriteria(a, b, c) : a \in BOOLEAN, b \in BOOLEAN, c \in BOOLEAN}

\* the keys of property_type_selectors (LoopNet) and of property_type_map
\* (CommercialMLS)
CheckboxKeys(site) == {"multifamily", "retail", "industrial", "office"}

\* the property_types argument of a manual run: names as the GUI's checkboxes
\* and the test menu give them, and one name no site has a checkbox for
PropertyTypeInputs ==
    { <<>>, <<"Office", "Land">>, <<"retail", "Industrial", "office">> }

\* PriceGiven as it would be if the price filters needed both bounds
PriceGivenBoth(c) == c.min_price /\ c.max_price

\* if min_price or max_price:
PriceGiven(c) == c.min_price \/ c.max_price

\* a progress value, in hundredths: 0.05 is 5, 1.0 is 100
\* the values LoopNetScraper.search emits inside the Other Filters block
LoopNetFilterMilestonesSwapped(c) ==
    <<40>>
    \o (IF c.min_price \/ c.max_price THEN <<50, 45>> ELSE <<>>)
    \o (IF c.start_date THEN <<55>> ELSE <<>>)
    \o <<60>>

\* lines 164-210: 0.4, [0.45, 0.5 with a price], [0.55 with a date], 0.6
LoopNetFilterMilestones(c) ==
    <<40>>
    \o (IF PriceGiven(c) THEN <<45, 50>> ELSE <<>>)
    \o (IF c.start_date THEN <<55>> ELSE <<>>)
    \o <<60>>

\* _setup_search_criteria after the location is confirmed (lines 230-318):
\* 0.3, 0.35, 0.4, [0.45, 0.5, 0.52 with a price], [0.54, 0.58 with a date]
MLSCriteriaMilestones(c) ==
    <<30, 35, 40>>
    \o (IF PriceGiven(c) THEN <<45, 50, 52>> ELSE <<>>)
    \o (IF c.start_date THEN <<54, 58>> ELSE <<>>)

\* the progress_callbacks argument: omitted (None) or a dict; a callback is
\* named by the key it is registered under
ProgressCallbacks(given, keys) == [given |-> given, keys |-> keys]
NoCallbacks == ProgressCallbacks(FALSE, {})
CallbackInputs ==
    {NoCallbacks} \cup {ProgressCallbacks(TRUE, keys) : keys \in SUBSET Sites}
\* progress_callback = None
NoCallback == ""

\* CallbackFor as it would be if every adapter were handed the first callback
\* of the dict
CallbackForFirstKey(progress_callbacks, website_key) ==
    IF progress_callbacks.given /\ progress_callbacks.keys # {}
    THEN IF Scrapers[1] \in progress_callbacks.keys THEN Scrapers[1] ELSE Scrapers[2]
    ELSE NoCallback

\* lines 65-67: the callback handed to the adapter of website_key
CallbackFor(progress_callbacks, website_key) ==
    IF progress_callbacks.given /\ progress_callbacks.keys # {}
          /\ website_key \in progress_callbacks.keys
    THEN website_key
    ELSE NoCallback

\* a local variable holding a list: unbound until assigned
UnboundList == [bound |-> FALSE, val |-> <<>>]
BoundList(l) == [bound |-> TRUE, val |-> l]

\* the frame of a thread that is not inside an adapter's search
NoSearch ==
    [pc |-> "none", site |-> "", mgr |-> 0, results |-> UnboundList,
     retval |-> UnboundList, session |-> 0, exc |-> FALSE,
     criteria |-> NoCriteria,   \* which optional criteria the call was given
     property_types |-> <<>>,   \* the property_types argument
     stages |-> <<>>,           \* the stages of the search form gone through, in order
     checkbox_clicks |-> <<>>,  \* the property type checkboxes click_element was called on
     popup_closes |-> 0,        \* calls of _try_close_popup
     early |-> FALSE,           \* the run left the try block by a return
     late |-> FALSE,            \* a progress value was emitted after _close_driver
     progress |-> <<>>,         \* the values passed to update_progress so far
     callback |-> NoCallback,   \* the progress_callback argument
     delivered |-> <<>>,        \* the values that callback was called with
     reached |-> "unknown",     \* what verify_page_load answered
     form_stages |-> 0,         \* form-filling stages gone through
     failed |-> FALSE,          \* an interaction primitive returned False
     extractions |-> 0,         \* calls of the listing extractor
     closes |-> 0,              \* calls of _close_driver that returned
     prompt |-> ""]             \* how the operator prompt ended, "" if there was none

\* the frame of a thread that is not inside ScraperManager.search
NoCall ==
    [pc |-> "none", mgr |-> 0, websites |-> Websites(FALSE, <<>>),
     property_types |-> <<>>, criteria |-> NoCriteria,
     progress_callbacks |-> NoCallbacks,
     websites_to_search |-> <<>>, single_site |-> FALSE, results |-> <<>>,
     invoked |-> <<>>, ret |-> [kind |-> "none", list |-> <<>>, dict |-> <<>>]]

RECURSIVE ResolveFrom(_, _, _)
\* lines 51-54: the keys of websites_to_search in insertion order, after the
\* names from position i on have been looked at (a dict keeps a key's first place)
ResolveFrom(names, i, keys) ==
    IF i > Len(names) THEN keys
    ELSE LET key == WebsiteKey(names[i])
             seen == \E k \in 1..Len(keys) : keys[k] = key[1]
         IN  IF IsScraperKey(key) /\ ~seen
             THEN ResolveFrom(names, i + 1, Append(keys, key[1]))
             ELSE ResolveFrom(names, i + 1, keys)

\* WebsitesToSearch as it would be if a list that resolves to no site fell back
\* to every registered site
WebsitesToSearchFallback(websites) ==
    IF websites.given /\ websites.names # <<>>
          /\ ResolveFrom(websites.names, 1, <<>>) # <<>>
    THEN ResolveFrom(websites.names, 1, <<>>)
    ELSE Scrapers

\* lines 45-58: websites_to_search
WebsitesToSearch(websites) ==
    IF websites.given /\ websites.names # <<>>
    THEN ResolveFrom(websites.names, 1, <<>>)
    ELSE Scrapers

\* SingleSite as it would be if it counted the names given, not the sites resolved
SingleSiteByNames(websites) ==
    /\ websites.given /\ websites.names # <<>>
    /\ Len(websites.names) = 1

\* lines 47, 50-56: single_site
SingleSite(websites) ==
    /\ websites.given /\ websites.names # <<>>
    /\ Len(WebsitesToSearch(websites)) = 1

(***************************************************************************)
(* BaseScraper: the browser session of an adapter instance.                *)
(***************************************************************************)
Inst(t) == <<srch[t].mgr, srch[t].site>>

\* self.driver is set: calls on it reach a browser
BrowserUp(t) == driver[Inst(t)] # NoDriver

\* the outcomes of a browser call that nothing guards: with no driver it raises
CallOutcomes(t) == IF BrowserUp(t) THEN {"ok", "raise"} ELSE {"raise"}
\* the outcomes of an interaction primitive (click_element, input_text_with_wait,
\* verify_page_load): it returns a boolean and swallows what the browser raises
PrimitiveOutcomes(t) == IF BrowserUp(t) THEN {TRUE, FALSE} ELSE {FALSE}

\* the next pc of the running search
Goto(t, label) == srch' = [srch EXCEPT ![t].pc = label]

\* the frame f at label
At(f, label) == [f EXCEPT !.pc = label]

\* update_progress(v, progress_callback) for each v of values, in order: the
\* callback is called if there is one
Emit(f, values) ==
    [f EXCEPT !.progress = @ \o values,
              !.delivered = IF f.callback # NoCallback THEN @ \o values ELSE @,
              !.late = @ \/ (f.closes > 0 /\ values # <<>>)]

\* the frame after the stage of that name has been gone through
Stage(f, name) == [f EXCEPT !.stages = Append(@, name)]

\* the optional stages: "if min_price or max_price:", then "if start_date:"
OptionalStages(c) ==
    (IF PriceGiven(c) THEN <<"price">> ELSE <<>>)
    \o (IF c.start_date THEN <<"date">> ELSE <<>>)

RECURSIVE CheckboxClicksFrom(_, _, _)
\* for prop_type in property_types: the checkbox of prop_type.lower() is clicked
\* if the site's table has one; from position i on
CheckboxClicksFrom(site, property_types, i) ==
    IF i > Len(property_types) THEN <<>>
    ELSE LET key == LowerSym(property_types[i])
         IN  (IF key \in CheckboxKeys(site) THEN <<key>> ELSE <<>>)
             \o CheckboxClicksFrom(site, property_types, i + 1)

\* the frame after a form-filling stage whose primitives answered ok
Interact(f, ok) == [f EXCEPT !.form_stages = @ + 1, !.failed = @ \/ ~ok]

\* whether the body of "try: <interaction primitives> except Exception:" raised:
\* click_element and input_text_with_wait hand back their answer and let no
\* exception out, whatever the answer is
BodyRaised(ok) == FALSE

\* a LoopNet stage written as try: <primitives> / except Exception:
\* self._try_close_popup(); <primitives again>
WithPopupRetry(f, ok, again) ==
    IF BodyRaised(ok)
    THEN Interact([f EXCEPT !.popup_closes = @ + 1], again)
    ELSE Interact(f, ok)

\* ReturnEarly as it would be if the early return left search before the finally
\* clause (a return placed outside the try block)
ReturnEarlyNoFinally(f, value) ==
    [f EXCEPT !.pc = "return", !.retval = BoundList(value)]

\* ReturnEarly as it would be if the answer were ignored and the run went on
ReturnEarlyIgnored(f, value) == [f EXCEPT !.pc = "extract"]

\* ReturnEarly as it would be if the early return reported the run as complete
ReturnEarlyReportsDone(f, value) ==
    Emit([f EXCEPT !.pc = "finally", !.retval = BoundList(value), !.early = TRUE],
         <<100>>)

\* "return value" inside the try block: the value is kept while finally runs
ReturnEarly(f, value) ==
    [f EXCEPT !.pc = "finally", !.retval = BoundList(value), !.early = TRUE]

\* Quit as it would be if _close_driver dropped the driver without quitting it
QuitForgotten(d) == sessions

\* sessions after self.driver.quit() on session d
Quit(d) == [sessions EXCEPT ![d].open = FALSE]

\* _setup_driver: webdriver.Chrome(...) starts a session and assigns self.driver;
\* the constructor, or one of the calls on the new driver after it, may raise
SetupDriver(t) ==
    /\ srch[t].pc = "setup"
    /\ \/ \* webdriver.Chrome raises: self.driver is left as it was
          /\ Goto(t, "except")
          /\ UNCHANGED <<driver, sessions>>
       \/ \E after \in {"ok", "raise"} :
            LET sid == Len(sessions) + 1 IN
            /\ sessions' = Append(sessions, [inst |-> Inst(t), owner |-> t, open |-> TRUE])
            /\ driver' = [driver EXCEPT ![Inst(t)] = sid]
            /\ srch' = [srch EXCEPT ![t] =
                    IF after = "raise" THEN At([@ EXCEPT !.session = sid], "except")
                    ELSE Emit(At([@ EXCEPT !.session = sid],
                                 IF @.site = "loopnet" THEN "navigate" ELSE "window"),
                              <<5>>)]
    /\ UNCHANGED <<debug_mode, scraper_manager, n_managers, last_run_time, thr, call>>
    /\ UNCHANGED unitVars

\* AwaitsOperator as it would be if every run held the browser open
AwaitsOperatorAlways(debug) == TRUE

\* AwaitsOperator as it would be if debug mode did not hold the browser open
AwaitsOperatorNever(debug) == FALSE

\* if self.debug_mode: input("... Press Enter to close...")
AwaitsOperator(debug) == debug

\* _close_driver returns
CloseReturns(t) == srch' = [srch EXCEPT ![t].pc = "return", ![t].closes = @ + 1]

\* the finally clause: _close_driver.  With a driver and in debug mode the
\* operator is prompted first; otherwise the driver is quit at once.
CloseDriver(t) ==
    /\ srch[t].pc = "finally"
    /\ IF ~BrowserUp(t)
       THEN CloseReturns(t) /\ UNCHANGED <<driver, sessions>>
       ELSE IF AwaitsOperator(debug_mode)
       THEN Goto(t, "prompt") /\ UNCHANGED <<driver, sessions>>
       ELSE /\ sessions' = Quit(driver[Inst(t)])
            /\ driver' = [driver EXCEPT ![Inst(t)] = NoDriver]
            /\ CloseReturns(t)
    /\ UNCHANGED <<debug_mode, scraper_manager, n_managers, last_run_time, thr, call>>
    /\ UNCHANGED unitVars

\* _close_driver in debug mode: input() returned, hit EOF or raised; then quit
OperatorPrompt(t) ==
    /\ srch[t].pc = "prompt"
    /\ sessions' = Quit(driver[Inst(t)])
    /\ driver' = [driver EXCEPT ![Inst(t)] = NoDriver]
    /\ \E ended \in {"returned", "eof", "error"} :
          srch' = [srch EXCEPT ![t].pc = "return", ![t].closes = @ + 1,
                               ![t].prompt = ended]
    /\ UNCHANGED <<debug_mode, scraper_manager, n_managers, last_run_time, thr, call>>
    /\ UNCHANGED unitVars

\* a step of search that changes nothing but the search frame
FrameOnly ==
    /\ UNCHANGED <<debug_mode, scraper_manager, n_managers, driver, sessions,
                   last_run_time, thr, call>>
    /\ UNCHANGED unitVars

(***************************************************************************)
(* The steps of search that both adapters share.                           *)
(***************************************************************************)
\* self.driver.get(self.base_url); update_progress(0.1)
Navigate(t) ==
    /\ srch[t].pc = "navigate"
    /\ \E o \in CallOutcomes(t) :
          srch' = [srch EXCEPT ![t] =
              IF o = "ok" THEN Emit(At(Stage(@, "navigate"), "verify"), <<10>>)
              ELSE At(Stage(@, "navigate"), "except")]
    /\ FrameOnly

\* if not self.verify_page_load(domain): return [] (LoopNet) / return results (MLS)
VerifyPageLoad(t) ==
    /\ srch[t].pc = "verify"
    /\ \E reached \in PrimitiveOutcomes(t) :
          srch' = [srch EXCEPT ![t] =
              IF reached
              THEN IF @.site = "loopnet"
                   THEN At([@ EXCEPT !.reached = "yes"], "location")
                   ELSE Emit(At([@ EXCEPT !.reached = "yes"], "search_button"), <<15>>)
              ELSE ReturnEarly([@ EXCEPT !.reached = "no"],
                               IF @.site = "loopnet" THEN <<>> ELSE @.results.val)]
    /\ FrameOnly

\* except Exception as e: log the error
ExceptHandler(t) ==
    /\ srch[t].pc = "except"
    /\ srch' = [srch EXCEPT ![t].pc = "finally", ![t].exc = TRUE]
    /\ FrameOnly

\* the end of search: the value of a "return" inside try, else "return results",
\* which raises UnboundLocalError if results was never assigned
Return(t) ==
    /\ srch[t].pc = "return"
    /\ IF srch[t].retval.bound THEN Goto(t, "returned")
       ELSE IF srch[t].results.bound
       THEN srch' = [srch EXCEPT ![t].pc = "returned", ![t].retval = srch[t].results]
       ELSE Goto(t, "raised")
    /\ FrameOnly

(***************************************************************************)
(* LoopNetScraper.search: the form-filling stages.  The interaction        *)
(* primitives return a boolean the adapter does not look at.               *)
(***************************************************************************)
\* input_text_with_wait(location_box, location, press_enter=True); 0.2
EnterLocation(t) ==
    /\ srch[t].pc = "location" /\ srch[t].site = "loopnet"
    /\ \E ok \in PrimitiveOutcomes(t), again \in PrimitiveOutcomes(t) :
          srch' = [srch EXCEPT ![t] =
              Emit(At(WithPopupRetry(Stage(@, "location"), ok, again), "for_sale"),
                   <<20>>)]
    /\ FrameOnly

\* click_element(sale_lease_dropdown); click_element(for_sale_button); 0.25
SelectForSale(t) ==
    /\ srch[t].pc = "for_sale" /\ srch[t].site = "loopnet"
    /\ \E ok \in PrimitiveOutcomes(t), again \in PrimitiveOutcomes(t) :
          srch' = [srch EXCEPT ![t] =
              Emit(At(WithPopupRetry(Stage(@, "for_sale"), ok, again), "property_types"),
                   <<25>>)]
    /\ FrameOnly

\* the property type dropdown (0.3) and checkboxes, then the unguarded
\* driver.execute_script("document.activeElement.blur();") and 0.35
SelectPropertyTypes(t) ==
    /\ srch[t].pc = "property_types" /\ srch[t].site = "loopnet"
    /\ \E ok \in PrimitiveOutcomes(t), again \in PrimitiveOutcomes(t),
          blur \in CallOutcomes(t) :
          LET f == [Stage(srch[t], "types") EXCEPT
                       !.checkbox_clicks =
                           CheckboxClicksFrom("loopnet", srch[t].property_types, 1)]
          IN  srch' = [srch EXCEPT ![t] =
                  IF blur = "ok"
                  THEN Emit(At(WithPopupRetry(f, ok, again), "filters"), <<30, 35>>)
                  ELSE Emit(At(WithPopupRetry(f, ok, again), "except"), <<30>>)]
    /\ FrameOnly

\* the Other Filters block: price range, date filter and the search button, all
\* inside one try whose except logs and tries to close the popup; then 0.65, 0.7
SetFilters(t) ==
    /\ srch[t].pc = "filters" /\ srch[t].site = "loopnet"
    /\ \E ok \in PrimitiveOutcomes(t) :
          srch' = [srch EXCEPT ![t] =
              Emit(At(Interact([@ EXCEPT !.stages =
                                          @ \o OptionalStages(srch[t].criteria)
                                            \o <<"submit">>], ok),
                      "extract"),
                   LoopNetFilterMilestones(@.criteria) \o <<65, 70>>)]
    /\ FrameOnly

\* results = self._extract_listings(); 0.9
ExtractLoopNetResults(t) ==
    /\ srch[t].pc = "extract" /\ srch[t].site = "loopnet"
    /\ \E p \in RunPages :
          LET r == ExtractListings(p, LiveDom(<<>>, FALSE), BrowserUp(t))
          IN  srch' = [srch EXCEPT ![t] =
                  Emit([@ EXCEPT !.pc = "report", !.results = BoundList(r.listings),
                                 !.extractions = @ + 1,
                                 !.stages = Append(@, "extract")], <<90>>)]
    /\ FrameOnly

(***************************************************************************)
(* CommercialMLSScraper.search                                             *)
(***************************************************************************)
\* maximize_window / set_window_size inside a try that swallows everything
AdjustWindow(t) ==
    /\ srch[t].pc = "window" /\ srch[t].site = "commercialmls"
    /\ Goto(t, "navigate")
    /\ FrameOnly

\* if not self.click_element(search_button): return results; else 0.2
ClickSearchButton(t) ==
    /\ srch[t].pc = "search_button" /\ srch[t].site = "commercialmls"
    /\ \E clicked \in PrimitiveOutcomes(t) :
          srch' = [srch EXCEPT ![t] =
              IF clicked
              THEN Emit(At(Interact(@, TRUE), "criteria"), <<20>>)
              ELSE ReturnEarly(Interact(@, FALSE), @.results.val)]
    /\ FrameOnly

\* _setup_search_criteria: primitives (0.25), the unguarded find_element /
\* send_keys that select the location suggestion, the rest of the criteria; 0.6
SetupSearchCriteria(t) ==
    /\ srch[t].pc = "criteria" /\ srch[t].site = "commercialmls"
    /\ \E ok \in PrimitiveOutcomes(t), o \in CallOutcomes(t) :
          srch' = [srch EXCEPT ![t] =
              IF o = "ok"
              THEN Emit(At(Interact([@ EXCEPT
                                !.stages = @ \o <<"location", "for_sale", "types">>
                                             \o OptionalStages(srch[t].criteria),
                                !.checkbox_clicks =
                                    CheckboxClicksFrom("commercialmls",
                                                       srch[t].property_types, 1)], ok),
                           "submit"),
                        <<25>> \o MLSCriteriaMilestones(@.criteria) \o <<60>>)
              ELSE Emit(At(Interact(Stage(@, "location"), ok), "except"), <<25>>)]
    /\ FrameOnly

\* Enter on the body element; if that raises, the form is submitted by script,
\* and what the script raises is not caught here; 0.65, 0.7
SubmitSearch(t) ==
    /\ srch[t].pc = "submit" /\ srch[t].site = "commercialmls"
    /\ \E keys \in CallOutcomes(t), script \in CallOutcomes(t) :
          srch' = [srch EXCEPT ![t] =
              IF keys = "ok" \/ script = "ok"
              THEN Emit(At(Stage(@, "submit"), "grid"), <<65, 70>>)
              ELSE At(Stage(@, "submit"), "except")]
    /\ FrameOnly

\* click_element(grid_button) inside a try; 0.8
SwitchToGrid(t) ==
    /\ srch[t].pc = "grid" /\ srch[t].site = "commercialmls"
    /\ \E ok \in PrimitiveOutcomes(t) :
          srch' = [srch EXCEPT ![t] = Emit(At(Interact(@, ok), "extract"), <<80>>)]
    /\ FrameOnly

\* results = self._extract_listings_from_grid(); 0.9
ExtractGridResults(t) ==
    /\ srch[t].pc = "extract" /\ srch[t].site = "commercialmls"
    /\ \E g \in RunGrids :
          LET r == ExtractListingsFromGrid(IF BrowserUp(t) THEN g ELSE Grid(FALSE, <<>>))
          IN  srch' = [srch EXCEPT ![t] =
                  Emit([@ EXCEPT !.pc = "report", !.results = BoundList(r.listings),
                                 !.extractions = @ + 1,
                                 !.stages = Append(@, "extract")], <<90>>)]
    /\ FrameOnly

\* the listings are logged and progress 1.0 is reported: the try block ends
Report(t) ==
    /\ srch[t].pc = "report"
    /\ srch' = [srch EXCEPT ![t] = Emit(At(@, "finally"), <<100>>)]
    /\ FrameOnly

\* one step of the adapter search a thread is in (the operator prompt aside)
SearchStep(t) ==
    \/ SetupDriver(t)
    \/ Navigate(t)
    \/ VerifyPageLoad(t)
    \/ EnterLocation(t)
    \/ SelectForSale(t)
    \/ SelectPropertyTypes(t)
    \/ SetFilters(t)
    \/ ExtractLoopNetResults(t)
    \/ AdjustWindow(t)
    \/ ClickSearchButton(t)
    \/ SetupSearchCriteria(t)
    \/ SubmitSearch(t)
    \/ SwitchToGrid(t)
    \/ ExtractGridResults(t)
    \/ Report(t)
    \/ ExceptHandler(t)
    \/ CloseDriver(t)
    \/ Return(t)

(***************************************************************************)
(* ScraperManager.search                                                   *)
(***************************************************************************)
\* the start of search(websites=w) on manager m: lines 45-58
StartCall(t, m, w, property_types, c, cbs) ==
    call' = [call EXCEPT ![t] =
        [NoCall EXCEPT !.pc = "loop", !.mgr = m, !.websites = w, !.criteria = c,
                       !.property_types = property_types,
                       !.progress_callbacks = cbs,
                       !.websites_to_search = WebsitesToSearch(w),
                       !.single_site = SingleSite(w)]]

\* the frame of scraper.search(...) as it is entered
NewSearch(m, site, property_types, c, progress_callback) ==
    [NoSearch EXCEPT !.pc = "setup", !.site = site, !.mgr = m, !.criteria = c,
                     !.property_types = property_types,
                     !.callback = progress_callback,
                     \* CommercialMLSScraper.search starts with results = []
                     !.results = IF site = "commercialmls" THEN BoundList(<<>>)
                                 ELSE UnboundList]

\* the loop reaches the next entry of websites_to_search and calls its search
ManagerInvoke(t) ==
    /\ call[t].pc = "loop"
    /\ Len(call[t].invoked) < Len(call[t].websites_to_search)
    /\ LET website_key == call[t].websites_to_search[Len(call[t].invoked) + 1] IN
       /\ call' = [call EXCEPT ![t].pc = "in_search",
                               ![t].invoked = Append(@, website_key)]
       /\ srch' = [srch EXCEPT ![t] = NewSearch(call[t].mgr, website_key,
                     call[t].property_types, call[t].criteria,
                     CallbackFor(call[t].progress_callbacks, website_key))]
    /\ UNCHANGED <<debug_mode, scraper_manager, n_managers, driver, sessions, last_run_time, thr>>
    /\ UNCHANGED unitVars

\* search returned: results[website_key] = website_results
ManagerCollect(t) ==
    /\ call[t].pc = "in_search" /\ srch[t].pc = "returned"
    /\ call' = [call EXCEPT
            ![t].pc = "loop",
            ![t].results = Append(@, [key |-> srch[t].site, val |-> srch[t].retval.val])]
    /\ srch' = [srch EXCEPT ![t] = NoSearch]
    /\ UNCHANGED <<debug_mode, scraper_manager, n_managers, driver, sessions, last_run_time, thr>>
    /\ UNCHANGED unitVars

\* search raised: nothing in ScraperManager.search catches it
ManagerPropagate(t) ==
    /\ call[t].pc = "in_search" /\ srch[t].pc = "raised"
    /\ call' = [call EXCEPT ![t].pc = "raised"]
    /\ UNCHANGED <<debug_mode, scraper_manager, n_managers, driver, sessions, last_run_time,
                   thr, srch>>
    /\ UNCHANGED unitVars

\* lines 83-86: a list for a single site, the dict otherwise
ManagerReturn(t) ==
    /\ call[t].pc = "loop"
    /\ Len(call[t].invoked) = Len(call[t].websites_to_search)
    /\ call' = [call EXCEPT
            ![t].pc = "returned",
            ![t].ret = IF call[t].single_site /\ Len(call[t].results) = 1
                       THEN [kind |-> "list", list |-> call[t].results[1].val, dict |-> <<>>]
                       ELSE [kind |-> "dict", list |-> <<>>, dict |-> call[t].results]]
    /\ UNCHANGED <<debug_mode, scraper_manager, n_managers, driver, sessions, last_run_time,
                   thr, srch>>
    /\ UNCHANGED unitVars

ManagerStep(t) ==
    \/ ManagerInvoke(t)
    \/ ManagerCollect(t)
    \/ ManagerPropagate(t)
    \/ ManagerReturn(t)

(***************************************************************************)
(* A direct caller (the GUI's manual run, the test menu): one thread builds *)
(* a ScraperManager and calls search on it.                                *)
(***************************************************************************)
\* manager.search(..., websites=websites)
CallerSearch(t) ==
    /\ thr[t] = "ready"
    /\ \E w \in WebsiteInputs, p \in PropertyTypeInputs, c \in CriteriaInputs,
          cbs \in CallbackInputs :
          StartCall(t, 1, w, p, c, cbs)
    /\ thr' = [thr EXCEPT ![t] = "in_call"]
    /\ UNCHANGED <<debug_mode, scraper_manager, n_managers, driver, sessions,
                   last_run_time, srch>>
    /\ UNCHANGED unitVars

InitRun ==
    /\ debug_mode \in BOOLEAN
    /\ scraper_manager = NoManager
    /\ n_managers = 1
    /\ driver = [i \in Instances |-> NoDriver]
    /\ sessions = <<>>
    /\ last_run_time = "None"
    /\ thr = [t \in Threads |-> IF t = "t1" THEN "ready" ELSE "unused"]
    /\ call = [t \in Threads |-> NoCall]
    /\ srch = [t \in Threads |-> NoSearch]

\* the extraction-pass variables while the adapters run
ExtractIdle ==
    /\ click = NoClick
    /\ wait = NoWait
    /\ input = NoInput
    /\ dom = NoDom
    /\ types = NoTypes
    /\ xpc = "none"
    /\ xsite = ""
    /\ page = <<>>
    /\ live_dom = LiveDom(<<>>, FALSE)
    /\ source_ok = TRUE
    /\ grid = Grid(FALSE, <<>>)
    /\ listings = <<>>
    /\ processed_urls = {}
    /\ used_scans = NoScans
    /\ passes = <<>>
    /\ svc = NoLoop
    /\ sched = NoSchedule

Init == InitRun /\ ExtractIdle

Next ==
    \E t \in Threads :
        \/ CallerSearch(t)
        \/ ManagerStep(t)
        \/ SearchStep(t)
        \/ OperatorPrompt(t)

\* one ScraperManager.search call, from its caller's thread
Spec == Init /\ [][Next]_vars

\* the same with every thread that is inside an adapter's search scheduled: the
\* browser calls of a stage return or time out, so the stage is gone through;
\* nothing is assumed about the operator at the prompt
SpecUnattended == Spec /\ \A t \in Threads : WF_vars(SearchStep(t))

(***************************************************************************)
(* ScraperService: run_scraping on threads started by the main loop and by *)
(* trigger_immediate_scraping.                                             *)
(***************************************************************************)
\* self.config.get('websites')
ConfigWebsites ==
    { Websites(TRUE, << <<"commercialmls", ".", "com">>, <<"loopnet", ".", "com">> >>),
      Websites(TRUE, << <<"loopnet", ".", "com">> >>) }

\* run_scraping: min_price and max_price '' in the configuration become None,
\* start_date is always computed from days_back
ConfigCriteria == SearchCriteria(FALSE, FALSE, TRUE)

\* ScraperService.load_config, lines 67-69: [pt.lower() for pt in ...]
ServiceTypes(saved) == [i \in 1..Len(saved) |-> LowerSym(saved[i])]

\* load_config: the saved property types, lower-cased
ConfigTypes == ServiceTypes(<<"MultiFamily", "Office">>)

ServiceOnly == UNCHANGED <<debug_mode, driver, sessions, srch>> /\ UNCHANGED unitVars

\* main: should_run_scraping() holds (never run before, inside the scheduled
\* window) and a run_scraping thread is started
ScheduledStart(t) ==
    /\ thr[t] = "idle"
    /\ last_run_time = "None"
    /\ thr' = [thr EXCEPT ![t] = "check_manager"]
    /\ UNCHANGED <<scraper_manager, n_managers, last_run_time, call>>
    /\ ServiceOnly

\* trigger_immediate_scraping: a run_scraping thread is started at once
TriggerImmediateScraping(t) ==
    /\ thr[t] = "idle"
    /\ thr' = [thr EXCEPT ![t] = "triggered"]
    /\ UNCHANGED <<scraper_manager, n_managers, last_run_time, call>>
    /\ ServiceOnly

\* run_scraping: if self.scraper_manager is None
CheckManager(t) ==
    /\ thr[t] \in {"check_manager", "triggered"}
    /\ thr' = [thr EXCEPT ![t] = IF scraper_manager = NoManager THEN "new_manager"
                                 ELSE "call"]
    /\ UNCHANGED <<scraper_manager, n_managers, last_run_time, call>>
    /\ ServiceOnly

\* run_scraping: self.scraper_manager = ScraperManager(debug_mode=False)
NewManager(t) ==
    /\ thr[t] = "new_manager"
    /\ n_managers' = n_managers + 1
    /\ scraper_manager' = n_managers + 1
    /\ thr' = [thr EXCEPT ![t] = "call"]
    /\ UNCHANGED <<last_run_time, call>>
    /\ ServiceOnly

\* run_scraping: self.scraper_manager.search(..., websites=config websites)
CallManager(t) ==
    /\ thr[t] = "call"
    /\ \E w \in ConfigWebsites : StartCall(t, scraper_manager, w, ConfigTypes, ConfigCriteria, NoCallbacks)
    /\ thr' = [thr EXCEPT ![t] = "in_call"]
    /\ UNCHANGED <<scraper_manager, n_managers, last_run_time>>
    /\ ServiceOnly

\* run_scraping after search returned: results logged, last_run_time updated
FinishRun(t) ==
    /\ thr[t] = "in_call" /\ call[t].pc = "returned"
    /\ last_run_time' = "set"
    /\ thr' = [thr EXCEPT ![t] = "done"]
    /\ UNCHANGED <<scraper_manager, n_managers, call>>
    /\ ServiceOnly

\* run_scraping's except: the error is written to a file, nothing else
FailRun(t) ==
    /\ thr[t] = "in_call" /\ call[t].pc = "raised"
    /\ thr' = [thr EXCEPT ![t] = "done"]
    /\ UNCHANGED <<scraper_manager, n_managers, last_run_time, call>>
    /\ ServiceOnly

InitSvc ==
    /\ debug_mode = FALSE
    /\ scraper_manager = NoManager
    /\ n_managers = 0
    /\ driver = [i \in Instances |-> NoDriver]
    /\ sessions = <<>>
    /\ last_run_time = "None"
    /\ thr = [t \in Threads |-> "idle"]
    /\ call = [t \in Threads |-> NoCall]
    /\ srch = [t \in Threads |-> NoSearch]
    /\ ExtractIdle

NextSvc ==
    \E t \in Threads :
        \/ ScheduledStart(t)
        \/ TriggerImmediateScraping(t)
        \/ CheckManager(t)
        \/ NewManager(t)
        \/ CallManager(t)
        \/ FinishRun(t)
        \/ FailRun(t)
        \/ ManagerStep(t)
        \/ SearchStep(t)

\* the service with its run_scraping threads
SpecSvc == InitSvc /\ [][NextSvc]_vars

\* the state of the adapters, orchestrator and service while only an extractor runs
RunIdle ==
    /\ debug_mode = FALSE
    /\ scraper_manager = 0
    /\ n_managers = 0
    /\ driver = <<>>
    /\ sessions = <<>>
    /\ last_run_time = "None"
    /\ thr = <<>>
    /\ call = <<>>
    /\ srch = <<>>

InitExtract ==
    /\ xpc = "page"
    /\ \/ xsite = "loopnet" /\ page \in LoopNetPages /\ grid = Grid(FALSE, <<>>)
       \/ xsite = "commercialmls" /\ page = <<>> /\ grid \in Grids
    /\ live_dom = LiveDom(<<>>, FALSE)
    /\ source_ok = TRUE
    /\ listings = <<>>
    /\ processed_urls = {}
    /\ used_scans = NoScans
    /\ passes = <<>>
    /\ svc = NoLoop
    /\ sched = NoSchedule
    /\ click = NoClick
    /\ wait = NoWait
    /\ input = NoInput
    /\ dom = NoDom
    /\ types = NoTypes
    /\ RunIdle

NextExtract == ExtractLoopNet \/ ExtractGrid

\* one extraction pass of either extractor on any page within the bounds
SpecExtract == InitExtract /\ [][NextExtract]_vars

\* the interaction primitives idle
PrimIdle ==
    /\ click = NoClick
    /\ wait = NoWait
    /\ input = NoInput

(***************************************************************************)
(* ScraperService.main and SvcStop.  The clock counts the minutes of the   *)
(* day; a wait that times out takes one minute, everything else no time.   *)
(* run_scraping threads are counted: how many were started and how many    *)
(* are still running.                                                      *)
(***************************************************************************)
\* how many minutes before and after the scheduled time the clock runs
MaxMinutes == 7
\* background_time, '03:00' unless configured, in minutes of the day
ScheduledMinutes == 180
\* abs(current_minutes_total - scheduled_minutes_total) <= 5
WindowMinutes == 5
\* timedelta(hours=23), in minutes
MinMinutesBetweenRuns == 1380
\* if config_refresh_counter % 10 == 0
RefreshEvery == 10

\* is_scheduled_time()
IsScheduledTime(now) ==
    LET d == now - ScheduledMinutes
    IN  (IF d < 0 THEN -d ELSE d) <= WindowMinutes

\* should_run_scraping()
ShouldRunScraping(s) ==
    /\ s.enable_background
    /\ IF s.last_run_time = NoTime THEN IsScheduledTime(s.clock)
       ELSE s.clock - s.last_run_time >= MinMinutesBetweenRuns /\ IsScheduledTime(s.clock)

\* SvcStop's last statement as it would be if it left the flag alone
RunningAfterStopKept == TRUE

\* self.running = False
RunningAfterStop == FALSE

\* the service as SvcDoRun enters main: the constructor made the event
\* unsignalled, running True, last_run_time None
ServiceAtMain(enable_background) ==
    [pc |-> "test",
     running |-> TRUE,
     event |-> FALSE,                \* hWaitStop is signalled
     stop |-> "none",                \* SvcStop: "none", "set_event", "done"
     enable_background |-> enable_background,
     last_run_time |-> NoTime,
     clock |-> ScheduledMinutes - MaxMinutes,
     config_refresh_counter |-> 0,
     rc |-> "none",                  \* what WaitForSingleObject returned
     active |-> 0,                   \* run_scraping threads that have not ended
     started |-> 0,                  \* run_scraping threads main has started
     overlapped |-> FALSE,           \* one was started while another was running
     begun_after_stop |-> FALSE,     \* the iteration began after SvcStop returned
     late_starts |-> 0]              \* threads started in such iterations

\* while self.running: and the configuration refresh of every tenth iteration
LoopTest ==
    /\ svc.pc = "test"
    /\ IF ~svc.running
       THEN svc' = [svc EXCEPT !.pc = "ended"]
       ELSE \E enabled \in BOOLEAN :
               svc' = [svc EXCEPT
                         !.pc = "should_run",
                         !.begun_after_stop = (svc.stop = "done"),
                         !.enable_background =
                             IF svc.config_refresh_counter % RefreshEvery = 0
                             THEN enabled ELSE @]
    /\ UNCHANGED <<extractVars, runVars, primVars, sched>>

\* if self.should_run_scraping(): a run_scraping thread is started
StartIfDue ==
    /\ svc.pc = "should_run"
    /\ svc' = IF ShouldRunScraping(svc)
              THEN [svc EXCEPT !.pc = "wait",
                               !.active = @ + 1,
                               !.started = @ + 1,
                               !.overlapped = @ \/ svc.active > 0,
                               !.late_starts = IF svc.begun_after_stop THEN @ + 1 ELSE @]
              ELSE [svc EXCEPT !.pc = "wait"]
    /\ UNCHANGED <<extractVars, runVars, primVars, sched>>

\* rc = WaitForSingleObject(self.hWaitStop, 60000): the event is signalled (and
\* resets itself), or a minute goes by
WaitForStop ==
    /\ svc.pc = "wait"
    /\ IF svc.event
       THEN svc' = [svc EXCEPT !.pc = "after_wait", !.rc = "WAIT_OBJECT_0",
                               !.event = FALSE]
       ELSE /\ svc.clock < ScheduledMinutes + MaxMinutes
            /\ svc' = [svc EXCEPT !.pc = "after_wait", !.rc = "WAIT_TIMEOUT",
                                  !.clock = @ + 1]
    /\ UNCHANGED <<extractVars, runVars, primVars, sched>>

\* heartbeat and status file, config_refresh_counter += 1, and the break on
\* WAIT_OBJECT_0
AfterWait ==
    /\ svc.pc = "after_wait"
    /\ svc' = [svc EXCEPT
                 !.config_refresh_counter = (@ + 1) % RefreshEvery,
                 !.pc = IF svc.rc = "WAIT_OBJECT_0" THEN "ended" ELSE "test"]
    /\ UNCHANGED <<extractVars, runVars, primVars, sched>>

\* a run_scraping thread ends: after a search that returned it sets
\* last_run_time, after an exception it only writes the error file
RunScrapingEnds ==
    /\ svc.pc # "none" /\ svc.active > 0
    /\ \E ok \in BOOLEAN :
          svc' = [svc EXCEPT !.active = @ - 1,
                             !.last_run_time = IF ok THEN svc.clock ELSE @]
    /\ UNCHANGED <<extractVars, runVars, primVars, sched>>

\* SvcStop, up to SetEvent(self.hWaitStop)
SvcStopSetEvent ==
    /\ svc.pc # "none" /\ svc.stop = "none"
    /\ svc' = [svc EXCEPT !.stop = "set_event", !.event = TRUE]
    /\ UNCHANGED <<extractVars, runVars, primVars, sched>>

\* SvcStop: self.running = False, and the method returns
SvcStopClearRunning ==
    /\ svc.stop = "set_event"
    /\ svc' = [svc EXCEPT !.stop = "done", !.running = RunningAfterStop]
    /\ UNCHANGED <<extractVars, runVars, primVars, sched>>

InitLoop ==
    /\ \E enabled \in BOOLEAN : svc = ServiceAtMain(enabled)
    /\ PrimIdle
    /\ dom = NoDom
    /\ types = NoTypes
    /\ xpc = "none"
    /\ xsite = ""
    /\ page = <<>>
    /\ live_dom = LiveDom(<<>>, FALSE)
    /\ source_ok = TRUE
    /\ grid = Grid(FALSE, <<>>)
    /\ listings = <<>>
    /\ processed_urls = {}
    /\ used_scans = NoScans
    /\ passes = <<>>
    /\ sched = NoSchedule
    /\ RunIdle

\* one step of main
MainStep == LoopTest \/ StartIfDue \/ WaitForStop \/ AfterWait

NextLoop ==
    \/ LoopTest
    \/ StartIfDue
    \/ WaitForStop
    \/ AfterWait
    \/ RunScrapingEnds
    \/ SvcStopSetEvent
    \/ SvcStopClearRunning

\* the service's main loop, its run_scraping threads and a stop request
SpecLoop == InitLoop /\ [][NextLoop]_vars

\* the same with main's thread scheduled: it is not held up for ever while it
\* can take a step
SpecLoopFair == SpecLoop /\ WF_vars(MainStep)

(***************************************************************************)
(* TaskSchedulerManager.install_task and schedule_times working on the     *)
(* task Windows holds under task_name.  A time string is a sequence of     *)
(* characters, a task is known by its triggers.                            *)
(***************************************************************************)
\* how many times a schedule has
MaxTimes == 2

\* no task of that name: schtasks /query fails
NoTask == [exists |-> FALSE, triggers |-> <<>>]

\* the task install_task creates: <Triggers></Triggers>
BasicTask == [exists |-> TRUE, triggers |-> <<>>]

\* the task schedule_times creates: one CalendarTrigger per time
ScheduledTask(triggers) == [exists |-> TRUE, triggers |-> triggers]

\* time strings as the schedule list of the window hands them over, well
\* formed and not
TimeStrings ==
    { <<"0", "3", ":", "0", "0">>,
      <<"1", "5", ":", "3", "0">>,
      <<"0", "3", "0", "0">>,
      <<"0", "3", ":", "0", "0", ":", "0", "0">> }

TimesInputs == SeqsUpTo(TimeStrings, MaxTimes)

\* hour, minute = time_str.split(':') raises ValueError unless there are two parts
UnpackRaises(time_str) == Len(Split(time_str, <<":">>)) # 2

\* the CalendarTrigger of one time: its StartBoundary's hour and minute
CalendarTrigger(time_str) ==
    LET parts == Split(time_str, <<":">>)
    IN  <<parts[1], parts[2]>>

\* the frame of a schedule_times call at its return
ScheduleReturn(f, value) == [f EXCEPT !.pc = "idle", !.result = value]

\* install_task(): schtasks /create with the basic XML
InstallTask ==
    /\ sched.pc = "idle"
    /\ \E ok \in BOOLEAN :
          sched' = [sched EXCEPT !.task = IF ok THEN BasicTask ELSE @,
                                 !.result = "none"]
    /\ UNCHANGED <<extractVars, runVars, primVars, svc>>

\* schedule_times(times) up to its first test: if not self.is_task_installed()
ScheduleTimes ==
    /\ sched.pc = "idle"
    /\ \E times \in TimesInputs :
          LET f == [sched EXCEPT !.times = times, !.i = 1, !.triggers_xml = <<>>,
                                 !.before = sched.task, !.result = "none"]
          IN  sched' = IF ~sched.task.exists THEN ScheduleReturn(f, "False")
                       ELSE [f EXCEPT !.pc = "delete"]
    /\ UNCHANGED <<extractVars, runVars, primVars, svc>>

\* if not self.delete_task(): schtasks /delete removes the task or fails
DeleteExisting ==
    /\ sched.pc = "delete"
    /\ \E ok \in BOOLEAN :
          sched' = IF ok THEN [sched EXCEPT !.pc = "triggers", !.task = NoTask]
                   ELSE ScheduleReturn(sched, "False")
    /\ UNCHANGED <<extractVars, runVars, primVars, svc>>

\* one round of for i, time_str in enumerate(times), the ValueError of a
\* malformed time caught by the method's except clause
BuildTrigger ==
    /\ sched.pc = "triggers"
    /\ sched' =
          IF sched.i > Len(sched.times) THEN [sched EXCEPT !.pc = "create"]
          ELSE IF UnpackRaises(sched.times[sched.i]) THEN ScheduleReturn(sched, "False")
          ELSE [sched EXCEPT !.i = @ + 1,
                             !.triggers_xml =
                                 Append(@, CalendarTrigger(sched.times[sched.i]))]
    /\ UNCHANGED <<extractVars, runVars, primVars, svc>>

\* schtasks /create with the new XML, and the return on its returncode
CreateTask ==
    /\ sched.pc = "create"
    /\ \E ok \in BOOLEAN :
          sched' = IF ok
                   THEN ScheduleReturn([sched EXCEPT !.task = ScheduledTask(sched.triggers_xml)],
                               "True")
                   ELSE ScheduleReturn(sched, "False")
    /\ UNCHANGED <<extractVars, runVars, primVars, svc>>

InitSchedule ==
    /\ \E task \in {NoTask, BasicTask} :
          sched = [pc |-> "idle", task |-> task, before |-> task, times |-> <<>>,
                   i |-> 1, triggers_xml |-> <<>>, result |-> "none"]
    /\ svc = NoLoop
    /\ PrimIdle
    /\ dom = NoDom
    /\ types = NoTypes
    /\ xpc = "none"
    /\ xsite = ""
    /\ page = <<>>
    /\ live_dom = LiveDom(<<>>, FALSE)
    /\ source_ok = TRUE
    /\ grid = Grid(FALSE, <<>>)
    /\ listings = <<>>
    /\ processed_urls = {}
    /\ used_scans = NoScans
    /\ passes = <<>>
    /\ RunIdle

NextSchedule ==
    \/ InstallTask
    \/ ScheduleTimes
    \/ DeleteExisting
    \/ BuildTrigger
    \/ CreateTask

\* the scheduled task under install_task and schedule_times
SpecSchedule == InitSchedule /\ [][NextSchedule]_vars

(***************************************************************************)
(* The extractors called again: an adapter instance is searched a second   *)
(* and a third time, on the same results page or on another one, and the   *)
(* other site's extractor runs in between in the same process.             *)
(***************************************************************************)
\* the most extraction passes one process makes
MaxPasses == 3

\* a detail URL that a LoopNet page and a CommercialMLS grid can both hold
SharedUrl == MLS_PROPERTY_URL \o <<"101">>

\* the results pages the passes are run on
RerunInputs ==
    { [site |-> "loopnet", grid |-> Grid(FALSE, <<>>),
       page |-> <<BareNode(Anchor(URL1, TitleFull)),
                  CardNode(<<Anchor(URL2, TitleFull)>>, FullCard)>>],
      [site |-> "loopnet", grid |-> Grid(FALSE, <<>>),
       page |-> <<BareNode(Anchor(URL1, TitleFull)),
                  BareNode(Anchor(SharedUrl, TitleFull))>>],
      [site |-> "commercialmls", page |-> <<>>,
       grid |-> Grid(TRUE, <<GridCard(<<"Retail">>, <<"123", SP, "Main", SP, "St">>,
                                      <<"$", "500,000">>,
                                      <<"#", "/", "property", "/", "101">>)>>)],
      [site |-> "commercialmls", page |-> <<>>,
       grid |-> Grid(TRUE, <<GridCard(<<"Retail">>, <<"123", SP, "Main", SP, "St">>,
                                      <<"$", "500,000">>,
                                      <<"#", "/", "property", "/", "101">>),
                             GridCard(<<"Office">>, <<"5", SP, "Oak", SP, "Ave">>,
                                      <<"$", "900,000">>,
                                      <<"#", "/", "property", "/", "102">>)>>)] }

\* search is called again: the pass that returned is one of the earlier passes
\* now, and an extractor is about to run on a results page once more
SearchAgain ==
    /\ xpc = "done"
    /\ Len(passes) + 1 < MaxPasses
    /\ passes' = Append(passes, [site |-> xsite, page |-> page, grid |-> grid,
                                 live |-> live_dom, source_ok |-> source_ok,
                                 listings |-> listings])
    /\ \E in \in RerunInputs :
          /\ xsite' = in.site
          /\ page' = in.page
          /\ grid' = in.grid
    /\ xpc' = "page"
    /\ live_dom' = LiveDom(<<>>, FALSE)
    /\ source_ok' = TRUE
    /\ listings' = <<>>
    /\ used_scans' = NoScans
    /\ UNCHANGED processed_urls
    /\ UNCHANGED runVars
    /\ UNCHANGED primVars
    /\ UNCHANGED loopVars

InitRerun ==
    /\ xpc = "page"
    /\ \E in \in RerunInputs : xsite = in.site /\ page = in.page /\ grid = in.grid
    /\ live_dom = LiveDom(<<>>, FALSE)
    /\ source_ok = TRUE
    /\ listings = <<>>
    /\ processed_urls = {}
    /\ used_scans = NoScans
    /\ passes = <<>>
    /\ svc = NoLoop
    /\ sched = NoSchedule
    /\ PrimIdle
    /\ dom = NoDom
    /\ types = NoTypes
    /\ RunIdle

NextRerun == ExtractLoopNet \/ ExtractGrid \/ SearchAgain

\* up to MaxPasses extraction passes in one process
SpecRerun == InitRerun /\ [][NextRerun]_vars

(***************************************************************************)
(* BaseScraper._close_driver on its own: called on an adapter that holds a *)
(* browser session or none, and called once more after it returned.        *)
(***************************************************************************)
\* the most sessions the adapter opened and closed before
MaxEarlierSessions == 2

\* a further call of _close_driver on the same adapter
CloseDriverAgain(t) ==
    /\ srch[t].pc = "return" /\ srch[t].closes = 1
    /\ Goto(t, "finally")
    /\ FrameOnly

InitClose ==
    /\ debug_mode \in BOOLEAN
    /\ scraper_manager = NoManager
    /\ n_managers = Cardinality(ManagerIds)
    /\ last_run_time = "None"
    /\ thr = [t \in Threads |-> "unused"]
    /\ call = [t \in Threads |-> NoCall]
    /\ \E i \in Instances, earlier \in 0..MaxEarlierSessions, up \in BOOLEAN :
          /\ sessions = [d \in 1..(earlier + (IF up THEN 1 ELSE 0)) |->
                            [inst |-> i, owner |-> "t1", open |-> d > earlier]]
          /\ driver = [j \in Instances |->
                          IF j = i /\ up THEN earlier + 1 ELSE NoDriver]
          /\ srch = [t \in Threads |->
                        IF t = "t1"
                        THEN [NoSearch EXCEPT !.pc = "finally", !.mgr = i[1],
                                              !.site = i[2],
                                              !.session = IF up THEN earlier + 1 ELSE 0]
                        ELSE NoSearch]
    /\ ExtractIdle

NextClose ==
    \E t \in Threads :
        \/ CloseDriver(t)
        \/ OperatorPrompt(t)
        \/ CloseDriverAgain(t)

\* _close_driver called twice in a row on one adapter
SpecClose == InitClose /\ [][NextClose]_vars

(***************************************************************************)
(* The legacy property type "Investment": from the saved configuration,    *)
(* through the unattended path that reads it, to the adapter's checkboxes. *)
(***************************************************************************)
\* the longest saved property_types list
MaxSavedTypes == 2

\* what a configuration file holds: the GUI's names and the legacy one
SavedTypeNames == {"Investment", "MultiFamily", "Office", "Retail", "Industrial"}
SavedTypeLists ==
    UNION {[1..n -> SavedTypeNames] : n \in 0..MaxSavedTypes}

\* TaskSchedulerManager.execute_scraping, lines 88-95
TaskSchedulerTypes(saved) ==
    [i \in 1..Len(saved) |->
        IF saved[i] = "Investment" THEN "multifamily" ELSE LowerSym(saved[i])]

\* the loop over property_types in either adapter: the checkbox of
\* prop_type.lower() is clicked if there is one
ClickedCheckboxes(site, property_types) ==
    {LowerSym(property_types[i]) : i \in 1..Len(property_types)} \cap CheckboxKeys(site)

\* the unattended path turns the saved list into the argument of search; the
\* task scheduler gives up on an empty list
ReadSavedTypes ==
    /\ types.pc = "saved"
    /\ LET property_types == IF types.path = "task_scheduler"
                             THEN TaskSchedulerTypes(types.saved)
                             ELSE ServiceTypes(types.saved)
       IN  types' = [types EXCEPT
                        !.property_types = property_types,
                        !.pc = IF types.path = "task_scheduler" /\ property_types = <<>>
                               THEN "rejected" ELSE "search"]
    /\ UNCHANGED <<click, wait, input, dom, extractVars, runVars, loopVars>>

\* the adapter's property type stage
ClickTypeCheckboxes ==
    /\ types.pc = "search"
    /\ types' = [types EXCEPT !.pc = "selected",
                              !.checked = ClickedCheckboxes(types.site, types.property_types)]
    /\ UNCHANGED <<click, wait, input, dom, extractVars, runVars, loopVars>>

InitTypes ==
    /\ \E path \in {"task_scheduler", "service"}, site \in Sites, saved \in SavedTypeLists :
          types = [NoTypes EXCEPT !.pc = "saved", !.path = path, !.site = site,
                                  !.saved = saved]
    /\ PrimIdle
    /\ dom = NoDom
    /\ xpc = "none"
    /\ xsite = ""
    /\ page = <<>>
    /\ live_dom = LiveDom(<<>>, FALSE)
    /\ source_ok = TRUE
    /\ grid = Grid(FALSE, <<>>)
    /\ listings = <<>>
    /\ processed_urls = {}
    /\ used_scans = NoScans
    /\ passes = <<>>
    /\ svc = NoLoop
    /\ sched = NoSchedule
    /\ RunIdle

NextTypes == ReadSavedTypes \/ ClickTypeCheckboxes

\* a saved property_types list read on an unattended path and searched for
SpecTypes == InitTypes /\ [][NextTypes]_vars

(***************************************************************************)
(* BaseScraper._remove_overlays: the script it runs in the page.           *)
(*                                                                         *)
(* An element is [parent, overlay, fixed, modal]: the index of its parent  *)
(* (0: a child of body), whether it is a div matching                      *)
(* 'div.csgp-modal-overlay, div.csgp-modal.ng-isolate-scope', whether it   *)
(* is a div whose style attribute contains "position: fixed", and whether  *)
(* it carries the class advanced-filters-modal.                            *)
(***************************************************************************)
\* the largest number of elements in the document
MaxDomElements == 3

Element(parent, overlay, fixed, modal) ==
    [parent |-> parent, overlay |-> overlay, fixed |-> fixed, modal |-> modal]

\* the documents of n elements: a parent comes before its children
DomsOfSize(n) ==
    {els \in [1..n -> [parent : 0..(MaxDomElements - 1), overlay : BOOLEAN,
                        fixed : BOOLEAN, modal : BOOLEAN]] :
        \A i \in 1..n : els[i].parent < i}

BodyStyles == {BodyLocked, BodyUnstyled, BodyScrollable}

RECURSIVE AncestorsOrSelf(_, _)
\* the element i and everything above it
AncestorsOrSelf(els, i) ==
    IF i = 0 THEN {} ELSE {i} \cup AncestorsOrSelf(els, els[i].parent)

\* element.closest('.advanced-filters-modal') is not null
ClosestModal(els, i) == \E a \in AncestorsOrSelf(els, i) : els[a].modal

\* what is left of the document after remove() on each of roots: an element
\* goes with its subtree
Detach(els, present, roots) ==
    {i \in present : AncestorsOrSelf(els, i) \cap roots = {}}

\* the script of _remove_overlays (lines 92-116) on document d
RemoveOverlaysScript(d) ==
    LET els == d.elements
        overlays == {i \in d.present : els[i].overlay}
        afterOverlays == Detach(els, d.present, {i \in overlays : ~els[i].modal})
        fixedElements == {i \in afterOverlays : els[i].fixed}
        afterFixed ==
            Detach(els, afterOverlays, {i \in fixedElements : ~ClosestModal(els, i)})
        \* document.querySelector('.advanced-filters-modal')
        modalOpen == \E i \in afterFixed : els[i].modal
    IN  [d EXCEPT !.present = afterFixed,
                  !.body = IF modalOpen THEN @ ELSE BodyScrollable]

\* _remove_overlays is called on the page, for the first or the second time
RemoveOverlays ==
    /\ dom.pc \in {"loaded", "once"}
    /\ LET d == RemoveOverlaysScript(dom) IN
       dom' = IF dom.pc = "loaded"
              THEN [d EXCEPT !.pc = "once", !.once_present = d.present,
                             !.once_body = d.body]
              ELSE [d EXCEPT !.pc = "twice"]
    /\ UNCHANGED <<click, wait, input, types, extractVars, runVars, loopVars>>

(***************************************************************************)
(* BaseScraper.click_element                                               *)
(***************************************************************************)
\* the largest max_retries a call is given
MaxRetries == 3
\* click_methods: JavaScript click, standard click, action chains
NumClickMethods == 3

\* ClickMethods as it would be with the standard click ahead of the script click
ClickMethodsNativeFirst == <<"native", "script", "action_chain">>

\* click_methods, in list order: the JavaScript click, element.click(), and
\* ActionChains(...).move_to_element(element).click().perform()
ClickMethods == <<"script", "native", "action_chain">>

\* ClickLoopGuard as it would be with one attempt too many
ClickLoopGuardInclusive(attempt, max_retries) == attempt <= max_retries

\* for attempt in range(max_retries): attempt is the next index
ClickLoopGuard(attempt, max_retries) == attempt < max_retries

\* click_element(selector_or_element, element_name, max_retries)
ClickCall ==
    /\ click.pc = "none" /\ wait.pc = "none" /\ input.pc = "none"
    /\ \E n \in 0..MaxRetries, sel \in BOOLEAN :
          click' = [NoClick EXCEPT !.pc = "loop", !.max_retries = n, !.by_selector = sel]
    /\ UNCHANGED <<wait, input, dom, types, extractVars, runVars, loopVars>>

\* the head of the for loop: the next attempt begins, or the loop is exhausted
\* and False is returned
ClickNextAttempt ==
    /\ click.pc = "loop"
    /\ click' = IF ClickLoopGuard(click.attempt, click.max_retries)
                THEN [click EXCEPT !.pc = "prepare", !.attempts = @ + 1, !.method = 0,
                                   !.overlay_raised = FALSE, !.prepared = <<>>,
                                   !.tried = <<>>,
                                   !.raised = 0]
                ELSE [click EXCEPT !.pc = "returned", !.result = FALSE]
    /\ UNCHANGED <<wait, input, dom, types, extractVars, runVars, loopVars>>

\* PrepareSteps as it would be with the scroll ahead of the overlay removal
PrepareStepsScrollFirst == <<"scroll", "overlays", "locate">>

\* what an attempt does ahead of the click methods, in statement order:
\* self._remove_overlays(), then smart_wait("clickable") and find_element for a
\* selector (or the element as it was passed), then scrollIntoView({block: 'center'})
PrepareSteps == <<"overlays", "locate", "scroll">>

\* what one step ahead of the click methods can do: a browser call raises or goes
\* through, smart_wait("clickable") may answer False for a selector, and taking
\* the element that was passed does nothing that can raise
PrepareOutcomes(step, by_selector) ==
    IF step = "locate"
    THEN IF by_selector THEN {"ok", "not_clickable", "raise"} ELSE {"ok"}
    ELSE {"ok", "raise"}

\* one step of the attempt ahead of the click methods: not clickable is
\* "continue", anything raised (by the overlay script or by a later call) goes to
\* the attempt's except, and all of these lead to the next attempt
ClickPrepare ==
    /\ click.pc = "prepare"
    /\ LET step == PrepareSteps[Len(click.prepared) + 1]
           c == [click EXCEPT !.prepared = Append(@, step)]
       IN  \E o \in PrepareOutcomes(step, click.by_selector) :
              click' = IF o = "ok"
                       THEN IF Len(c.prepared) = Len(PrepareSteps)
                            THEN [c EXCEPT !.pc = "methods"]
                            ELSE c
                       ELSE [c EXCEPT !.pc = "loop", !.attempt = @ + 1,
                                      !.overlay_raised =
                                          (step = "overlays" /\ o = "raise")]
    /\ UNCHANGED <<wait, input, dom, types, extractVars, runVars, loopVars>>

\* one click method: it goes through (return True) or raises; after the last
\* method has raised the attempt is over
ClickMethod ==
    /\ click.pc = "methods"
    /\ \E went \in BOOLEAN :
          LET c == [click EXCEPT !.tried = Append(@, ClickMethods[click.method + 1]),
                                 !.raised = IF went THEN @ ELSE @ + 1]
          IN  click' = IF went
                       THEN [c EXCEPT !.pc = "returned", !.result = TRUE, !.clicked = TRUE]
                       ELSE IF click.method = NumClickMethods - 1
                       THEN [c EXCEPT !.pc = "loop", !.attempt = @ + 1]
                       ELSE [c EXCEPT !.method = @ + 1]
    /\ UNCHANGED <<wait, input, dom, types, extractVars, runVars, loopVars>>

(***************************************************************************)
(* BaseScraper.input_text_with_wait                                        *)
(***************************************************************************)
\* input_text_with_wait(selector, text, element_name, press_enter, clear_first)
InputCall ==
    /\ click.pc = "none" /\ wait.pc = "none" /\ input.pc = "none"
    /\ \E pe \in BOOLEAN, cf \in BOOLEAN :
          input' = [NoInput EXCEPT !.pc = "overlays", !.press_enter = pe,
                                   !.clear_first = cf]
    /\ UNCHANGED <<click, wait, dom, types, extractVars, runVars, loopVars>>

\* self._remove_overlays(): nothing around the script call catches what it raises
InputRemoveOverlays ==
    /\ input.pc = "overlays"
    /\ \E o \in {"ok", "raise"} :
          input' = IF o = "ok" THEN [input EXCEPT !.pc = "wait"]
                   ELSE [input EXCEPT !.pc = "except", !.overlay_raised = TRUE]
    /\ UNCHANGED <<click, wait, dom, types, extractVars, runVars, loopVars>>

\* if not self.smart_wait("clickable", selector, ...): return False
InputWaitClickable ==
    /\ input.pc = "wait"
    /\ \E clickable \in BOOLEAN :
          input' = IF clickable THEN [input EXCEPT !.pc = "focus"]
                   ELSE [input EXCEPT !.pc = "returned", !.result = FALSE,
                                      !.not_clickable = TRUE]
    /\ UNCHANGED <<click, wait, dom, types, extractVars, runVars, loopVars>>

\* find_element, scrollIntoView, element.click()
InputFocus ==
    /\ input.pc = "focus"
    /\ \E o \in {"ok", "raise"} :
          input' = IF o = "ok"
                   THEN [input EXCEPT !.focused = TRUE,
                            !.pc = IF input.clear_first THEN "clear" ELSE "send_keys"]
                   ELSE [input EXCEPT !.focused = TRUE, !.pc = "except"]
    /\ UNCHANGED <<click, wait, dom, types, extractVars, runVars, loopVars>>

\* if clear_first: element.clear() and the script that empties the value
InputClear ==
    /\ input.pc = "clear"
    /\ \E o \in {"ok", "raise"} :
          input' = [input EXCEPT !.pc = IF o = "ok" THEN "send_keys" ELSE "except"]
    /\ UNCHANGED <<click, wait, dom, types, extractVars, runVars, loopVars>>

\* AfterTextEntry as it would be if the Enter keypress were left out
AfterTextEntryNoEnter(f) == [f EXCEPT !.pc = "returned", !.result = TRUE]

\* after the text is in: the Enter keypress if press_enter, else return True
AfterTextEntry(f) ==
    IF f.press_enter THEN [f EXCEPT !.pc = "enter"]
    ELSE [f EXCEPT !.pc = "returned", !.result = TRUE]

\* the three text-entry methods, each tried when the one before raised:
\* element.send_keys(text); the two scripts that set the value and dispatch the
\* input event; the action chain.  What the third raises nothing catches here.
InputEnterText ==
    /\ input.pc \in {"send_keys", "set_value", "action_chain"}
    /\ \E o \in {"ok", "raise"} :
          LET n == CASE input.pc = "send_keys" -> 1
                     [] input.pc = "set_value" -> 2
                     [] OTHER -> 3
          IN  input' = IF o = "ok" THEN AfterTextEntry([input EXCEPT !.entry = n])
                       ELSE [input EXCEPT
                                !.entries_raised = @ + 1,
                                !.pc = CASE n = 1 -> "set_value"
                                         [] n = 2 -> "action_chain"
                                         [] OTHER -> "except"]
    /\ UNCHANGED <<click, wait, dom, types, extractVars, runVars, loopVars>>

\* if press_enter: element.send_keys(Keys.ENTER); return True
InputPressEnter ==
    /\ input.pc = "enter"
    /\ \E o \in {"ok", "raise"} :
          input' = IF o = "ok"
                   THEN [input EXCEPT !.pc = "returned", !.result = TRUE,
                                      !.enter_done = TRUE]
                   ELSE [input EXCEPT !.pc = "except"]
    /\ UNCHANGED <<click, wait, dom, types, extractVars, runVars, loopVars>>

\* except Exception as e: log, return False
InputExcept ==
    /\ input.pc = "except"
    /\ input' = [input EXCEPT !.pc = "returned", !.result = FALSE, !.error = TRUE]
    /\ UNCHANGED <<click, wait, dom, types, extractVars, runVars, loopVars>>

(***************************************************************************)
(* BaseScraper.smart_wait.  Time is counted in units of 0.05 s, half the    *)
(* sleep of the stability loop.  No caller passes human_delay, so the      *)
(* human-like delays are always made.                                      *)
(***************************************************************************)
\* the largest number of matching elements the page holds
MaxElements == 5
\* the largest timeout, in polling intervals
MaxTimeout == 6
\* the largest stable_time, in polling intervals
MaxStableTime == 2
\* time.sleep(0.1) of the stability loop, in units of 0.05 s
PollInterval == 2

\* time.sleep(random.uniform(0.05, 0.1)) ahead of the try block
OpeningDelays == 1..2

\* time.sleep(random.uniform(0.1, 0.2)) ahead of "return True" in the stability
\* loop
ClosingDelays == PollInterval..(2 * PollInterval)
\* the most changes of the count that are told apart
MaxChanges == 3

\* the condition types smart_wait knows, and one it does not
WebDriverWaitTypes == {"page_load", "presence", "visible", "clickable", "count", "min_count"}
ConditionTypes == WebDriverWaitTypes \cup {"stable", "unknown"}

\* smart_wait(condition_type, selector, ..., min_count, timeout, stable_time)
SmartWaitCall ==
    /\ click.pc = "none" /\ wait.pc = "none" /\ input.pc = "none"
    /\ \E ct \in ConditionTypes, mc \in 0..1, to \in 1..MaxTimeout, st \in 1..MaxStableTime :
          \E opening \in OpeningDelays :
          wait' = [NoWait EXCEPT
                     !.pc = IF ct \in WebDriverWaitTypes THEN "until"
                            ELSE IF ct = "stable" THEN "poll" ELSE "fall_through",
                     !.condition_type = ct,
                     !.min_count = IF ct = "stable" THEN mc ELSE 1,
                     !.timeout = IF ct = "stable" THEN to * PollInterval ELSE PollInterval,
                     !.stable_time = IF ct = "stable" THEN st * PollInterval
                                     ELSE PollInterval,
                     !.now = IF ct = "stable" THEN opening ELSE 0]
    /\ UNCHANGED <<click, input, dom, types, extractVars, runVars, loopVars>>

\* WebDriverWait(self.driver, timeout).until(...): the condition is met, the
\* wait times out (TimeoutException) or the driver raises something else
WaitUntil ==
    /\ wait.pc = "until"
    /\ \E o \in {"met", "timeout", "error"} :
          wait' = [wait EXCEPT !.outcome = o,
                               !.pc = IF o = "met" THEN "return_true"
                                      ELSE IF o = "timeout" THEN "except_timeout"
                                      ELSE "except"]
    /\ UNCHANGED <<click, input, dom, types, extractVars, runVars, loopVars>>

\* return True at the end of a branch of the try block
WaitReturnTrue ==
    /\ wait.pc = "return_true"
    /\ wait' = [wait EXCEPT !.pc = "returned", !.result = TRUE]
    /\ UNCHANGED <<click, input, dom, types, extractVars, runVars, loopVars>>

\* OnWaitError as it would be if the handler raised again
OnWaitErrorReraise(w) == [w EXCEPT !.pc = "raised"]

\* except TimeoutException / except Exception: log, return False
OnWaitError(w) == [w EXCEPT !.pc = "returned", !.result = FALSE]

\* the two except clauses of smart_wait
WaitExcept ==
    /\ wait.pc \in {"except_timeout", "except"}
    /\ wait' = OnWaitError(wait)
    /\ UNCHANGED <<click, input, dom, types, extractVars, runVars, loopVars>>

\* no branch matches the condition type: the final "return False"
WaitFallThrough ==
    /\ wait.pc = "fall_through"
    /\ wait' = [wait EXCEPT !.pc = "returned", !.result = FALSE]
    /\ UNCHANGED <<click, input, dom, types, extractVars, runVars, loopVars>>

\* ResetOnChange as it would be if a change of the count left stable_start alone
KeepOnChange(stable_start) == stable_start

\* the else branch of the stability test: stable_start = None
ResetOnChange(stable_start) == NoTime

\* StableTest as it would be without the comparison with min_count
StableTestAnyCount(current_count, last_count, min_count) == current_count = last_count

\* if current_count == last_count and current_count >= min_count:
StableTest(current_count, last_count, min_count) ==
    current_count = last_count /\ current_count >= min_count

\* the frame after a poll at which find_elements returned current_count elements
Observe(w, current_count) ==
    [w EXCEPT
        !.observed = current_count,
        !.first_observed = IF w.observed = NoTime THEN current_count ELSE @,
        !.unchanged_since = IF current_count = w.observed THEN @ ELSE w.now,
        !.changes = IF w.observed # NoTime /\ current_count # w.observed /\ @ < MaxChanges
                    THEN @ + 1 ELSE @]

\* one iteration of "while time.time() - start_time < timeout" (lines 422-445),
\* or its end; the sleep after a poll takes one polling interval, and the
\* human-like delay is made ahead of "return True"
WaitPoll ==
    /\ wait.pc = "poll"
    /\ IF ~(wait.now - wait.start_time < wait.timeout)
       THEN wait' = [wait EXCEPT !.pc = "returned", !.result = FALSE, !.outcome = "timeout",
                                 !.decided = wait.now]
       ELSE \/ \* find_elements raised: sleep and continue
               wait' = [wait EXCEPT !.now = @ + PollInterval]
            \/ \E current_count \in 0..MaxElements :
                  LET w == Observe(wait, current_count) IN
                  IF StableTest(current_count, wait.last_count, wait.min_count)
                  THEN IF wait.stable_start = NoTime
                       THEN wait' = [w EXCEPT !.stable_start = wait.now,
                                              !.now = @ + PollInterval]
                       ELSE IF wait.now - wait.stable_start >= wait.stable_time
                       THEN \E closing \in ClosingDelays :
                               wait' = [w EXCEPT !.pc = "returned", !.result = TRUE,
                                                 !.outcome = "met",
                                                 !.decided = wait.now,
                                                 !.now = @ + closing]
                       ELSE wait' = [w EXCEPT !.now = @ + PollInterval]
                  ELSE wait' = [w EXCEPT !.stable_start = ResetOnChange(@),
                                         !.last_count = current_count,
                                         !.now = @ + PollInterval]
    /\ UNCHANGED <<click, input, dom, types, extractVars, runVars, loopVars>>

InitPrim ==
    /\ click = NoClick
    /\ wait = NoWait
    /\ input = NoInput
    /\ dom = NoDom
    /\ types = NoTypes
    /\ xpc = "none"
    /\ xsite = ""
    /\ page = <<>>
    /\ live_dom = LiveDom(<<>>, FALSE)
    /\ source_ok = TRUE
    /\ grid = Grid(FALSE, <<>>)
    /\ listings = <<>>
    /\ processed_urls = {}
    /\ used_scans = NoScans
    /\ passes = <<>>
    /\ svc = NoLoop
    /\ sched = NoSchedule
    /\ RunIdle

InitOverlay ==
    /\ \E n \in 0..MaxDomElements :
          \E els \in DomsOfSize(n), body \in BodyStyles :
             dom = [NoDom EXCEPT !.pc = "loaded", !.elements = els,
                                 !.present = 1..n, !.body = body,
                                 !.loaded_body = body]
    /\ PrimIdle
    /\ types = NoTypes
    /\ xpc = "none"
    /\ xsite = ""
    /\ page = <<>>
    /\ live_dom = LiveDom(<<>>, FALSE)
    /\ source_ok = TRUE
    /\ grid = Grid(FALSE, <<>>)
    /\ listings = <<>>
    /\ processed_urls = {}
    /\ used_scans = NoScans
    /\ passes = <<>>
    /\ svc = NoLoop
    /\ sched = NoSchedule
    /\ RunIdle

NextOverlay == RemoveOverlays

\* _remove_overlays run once and once more on any document within the bounds
SpecOverlay == InitOverlay /\ [][NextOverlay]_vars

NextPrim ==
    \/ ClickCall
    \/ ClickNextAttempt
    \/ ClickPrepare
    \/ ClickMethod
    \/ InputCall
    \/ InputRemoveOverlays
    \/ InputWaitClickable
    \/ InputFocus
    \/ InputClear
    \/ InputEnterText
    \/ InputPressEnter
    \/ InputExcept
    \/ SmartWaitCall
    \/ WaitUntil
    \/ WaitReturnTrue
    \/ WaitExcept
    \/ WaitFallThrough
    \/ WaitPoll

\* one call of click_element, of input_text_with_wait or of smart_wait
SpecPrim == InitPrim /\ [][NextPrim]_vars

(***************************************************************************)
(* Properties.                                                             *)
(***************************************************************************)
Finished(t) == srch[t].pc \in {"returned", "raised"}
OpenSessions == {d \in DOMAIN sessions : sessions[d].open}
Urls(ls) == {ls[i].url : i \in 1..Len(ls)}

\* C1: when search returns or raises, on every exit path, the session that its
\* _setup_driver opened has been quit and self.driver of the adapter is None.
C1_SessionReleasedOnExit ==
    \A t \in Threads :
        Finished(t) =>
            /\ driver[Inst(t)] = NoDriver
            /\ srch[t].session # 0 => ~sessions[srch[t].session].open

\* a search that opened a session, hit an exception and has ended
C1_Witness ==
    \E t \in Threads : Finished(t) /\ srch[t].exc /\ srch[t].session # 0

\* C2: an exception anywhere inside search is caught at the adapter's boundary:
\* the search ends by returning, and what it returns is the empty list.
C2_ExceptionGivesEmptyList ==
    \A t \in Threads :
        (Finished(t) /\ srch[t].exc) =>
            /\ srch[t].pc = "returned"
            /\ srch[t].retval.val = <<>>

\* C3: when two sites are targeted and one adapter's search fails,
\* ScraperManager.search does not raise, and what it returns has an entry for
\* each of the two sites, the failing one included.
C3_FailureIsolation ==
    \A t \in Threads :
        Len(call[t].websites_to_search) = 2 =>
            /\ call[t].pc # "raised"
            /\ call[t].pc = "returned" =>
                   [i \in 1..Len(call[t].ret.dict) |-> call[t].ret.dict[i].key]
                       = call[t].websites_to_search

\* C4: within one ScraperManager.search call at most one browser session is open
\* at any moment, and no session is open when an adapter's _setup_driver is called.
C4_OneSessionAtATime ==
    /\ Cardinality(OpenSessions) <= 1
    /\ \A t \in Threads : srch[t].pc = "setup" => OpenSessions = {}

\* the second adapter of a call holds its session open, the first one's is closed
C4_Witness ==
    \E t \in Threads :
        /\ Len(call[t].invoked) = 2
        /\ Len(sessions) = 2
        /\ ~sessions[1].open /\ sessions[2].open

\* C5: no thread calls _setup_driver on, or closes, an adapter instance whose
\* driver is held open by another thread's search.
C5_ExclusiveSession ==
    \A t \in Threads :
        /\ srch[t].pc = "setup" => driver[Inst(t)] = NoDriver
        /\ (srch[t].pc = "finally" /\ driver[Inst(t)] # NoDriver) =>
               sessions[driver[Inst(t)]].owner = t

\* the registered sites that the names of a websites argument resolve to
Targeted(websites) ==
    {site \in Sites :
        \E i \in 1..Len(websites.names) : WebsiteKey(websites.names[i]) = <<site>>}

\* C6: ScraperManager.search returns the flat list of the one adapter's records
\* when exactly one site was targeted, and otherwise a mapping with one entry per
\* invoked adapter, in invocation order.
C6_ReturnShape ==
    \A t \in Threads :
        call[t].pc = "returned" =>
            IF call[t].websites.given /\ Cardinality(Targeted(call[t].websites)) = 1
            THEN /\ call[t].ret.kind = "list"
                 /\ Len(call[t].invoked) = 1
                 /\ call[t].ret.list = call[t].results[1].val
            ELSE /\ call[t].ret.kind = "dict"
                 /\ [i \in 1..Len(call[t].ret.dict) |-> call[t].ret.dict[i].key]
                        = call[t].invoked
                 /\ \A i \in 1..Len(call[t].ret.dict) :
                        call[t].ret.dict[i].val = call[t].results[i].val

\* a call given two names of which one is a registered site returned a flat,
\* non-empty list
C6_Witness ==
    \E t \in Threads :
        /\ call[t].pc = "returned"
        /\ Len(call[t].websites.names) = 2
        /\ call[t].ret.kind = "list"
        /\ call[t].ret.list # <<>>

\* C7: no two records an extractor returns have the same url.
C7_NoDuplicateUrl ==
    xpc = "done" =>
        \A i, j \in 1..Len(listings) : i # j => listings[i].url # listings[j].url

\* a LoopNet page whose two detail links carry the same href gave one record
C7_Witness ==
    /\ xpc = "done" /\ xsite = "loopnet"
    /\ Len(DetailLinks(page)) = 2
    /\ DetailLinks(page)[1].a.href = URL1
    /\ DetailLinks(page)[2].a.href = URL1
    /\ Len(listings) = 1

\* the distinct non-empty URLs of the detail links the page of the pass holds
UniqueDetailUrls ==
    IF xsite = "loopnet"
    THEN {u \in {DetailLinks(page)[i].a.href : i \in 1..Len(DetailLinks(page))} :
             Truthy(u)}
    ELSE {u \in {GridUrl(grid.cards[i].href) : i \in 1..Len(grid.cards)} : Truthy(u)}

\* the pass read its page: neither page_source nor the wait for the grid failed
PageRead == IF xsite = "loopnet" THEN source_ok ELSE grid.container_ok

\* C8: every unique detail URL of the page has its record among those returned,
\* and every URL recorded in processed_urls has a record.
C8_OneRecordPerUrl ==
    (xpc = "done" /\ PageRead) =>
        /\ UniqueDetailUrls \subseteq Urls(listings)
        /\ processed_urls \subseteq Urls(listings)

\* C9: every returned record has a non-empty string in each of address, price,
\* property_type and url.
C9_SentinelCompleteness ==
    xpc = "done" =>
        \A i \in 1..Len(listings) :
            /\ listings[i].address # None /\ listings[i].address # <<>>
            /\ listings[i].price # None /\ listings[i].price # <<>>
            /\ listings[i].property_type # None /\ listings[i].property_type # <<>>
            /\ listings[i].url # None /\ listings[i].url # <<>>

\* C10: a candidate whose href is missing or empty is skipped by every scan: no
\* returned record has an absent or empty url.
C10_UrlResolved ==
    xpc = "done" => \A u \in Urls(listings) : Truthy(u)

\* a search that went through to the end: the extractor ran, nothing was raised
Successful(t) ==
    srch[t].pc = "returned" /\ ~srch[t].exc /\ srch[t].extractions = 1

\* C11: in a successful run of either adapter, whatever optional criteria are
\* given, the values passed to progress_callback never decrease, all lie in
\* [0, 1] (0..100 in hundredths), and the last one is 1.0.
C11_ProgressMonotone ==
    \A t \in Threads :
        Successful(t) =>
            LET p == srch[t].progress IN
            /\ \A i \in 1..Len(p) : 0 <= p[i] /\ p[i] <= 100
            /\ \A i \in 1..(Len(p) - 1) : p[i] <= p[i + 1]
            /\ p # <<>> /\ p[Len(p)] = 100

\* a successful LoopNet run given a minimum price, a maximum price and a date
C11_Witness ==
    \E t \in Threads :
        /\ Successful(t) /\ srch[t].site = "loopnet"
        /\ srch[t].criteria = SearchCriteria(TRUE, TRUE, TRUE)

\* C18: once the domain is reached, an interaction primitive returning False
\* in a form-filling stage does not abort the run: the run goes on to extraction.
C18_StageFailureDoesNotAbort ==
    \A t \in Threads :
        (Finished(t) /\ srch[t].reached = "yes" /\ srch[t].failed /\ ~srch[t].exc) =>
            srch[t].extractions = 1

\* C19: when verify_page_load answers that the domain was not reached, the run
\* does nothing but close the session and return: no form-filling stage, no
\* extraction, and the value returned is the empty list.
C19_AbortOnUnreachedDomain ==
    \A t \in Threads :
        srch[t].reached = "no" =>
            /\ srch[t].form_stages = 0
            /\ srch[t].extractions = 0
            /\ srch[t].pc \in {"finally", "prompt", "return", "returned"}
            /\ srch[t].pc = "returned" =>
                   /\ srch[t].retval.val = <<>>
                   /\ ~sessions[srch[t].session].open

\* a run that did not reach its domain has returned, its session opened before
C19_Witness ==
    \E t \in Threads :
        srch[t].reached = "no" /\ srch[t].pc = "returned" /\ srch[t].session # 0

\* C20: every run that reached the domain calls the listing extractor exactly
\* once before it ends, whatever the form-filling and submission stages did, and
\* returns what the extractor produced.
C20_ExtractorAlwaysRuns ==
    \A t \in Threads :
        (Finished(t) /\ srch[t].reached = "yes") =>
            /\ srch[t].extractions = 1
            /\ srch[t].pc = "returned"
            /\ srch[t].retval = srch[t].results

\* C12: click_element does not raise and makes a bounded number of attempts: it
\* returns True as soon as a click method goes through, and False after exactly
\* max_retries failed attempts, which for max_retries = 0 is no attempt at all.
C12_ClickBounded ==
    /\ click.pc # "raised"
    /\ click.attempts <= click.max_retries
    /\ click.clicked => (click.pc = "returned" /\ click.result)
    /\ click.pc = "returned" =>
           IF click.result
           THEN click.clicked /\ click.attempts >= 1
           ELSE ~click.clicked /\ click.attempts = click.max_retries

\* a call with the default max_retries returned False after its third attempt,
\* the last of them having tried every click method
C12_Witness ==
    /\ click.pc = "returned" /\ ~click.result
    /\ click.max_retries = 3 /\ click.attempts = 3
    /\ click.method = NumClickMethods - 1

\* C13: smart_wait returns a boolean and never raises, for every condition
\* type, known or not; after a timeout or a driver error it returns False.
C13_SmartWaitNeverRaises ==
    /\ wait.pc # "raised"
    /\ wait.pc = "returned" =>
           /\ wait.result \in BOOLEAN
           /\ wait.outcome \in {"timeout", "error"} => wait.result = FALSE
           /\ wait.condition_type = "unknown" => wait.result = FALSE

\* a WebDriverWait whose driver raised something other than a timeout
C13_Witness ==
    /\ wait.pc = "returned" /\ wait.outcome = "error" /\ wait.result = FALSE
    /\ wait.condition_type = "clickable"

\* C14: smart_wait("stable") returns True only when every poll over at least
\* stable_time up to the deciding poll has seen the same count, that count being at least
\* min_count; it never returns True on a count that has just changed.
C14_StableAfterQuietPeriod ==
    (wait.condition_type = "stable" /\ wait.pc = "returned" /\ wait.result) =>
        /\ wait.unchanged_since # NoTime
        /\ wait.decided - wait.unchanged_since >= wait.stable_time
        /\ wait.observed >= wait.min_count
        /\ wait.observed = wait.last_count

\* the grid that grows from 0 to 5 in three changes and then holds: True is
\* returned at count 5
C14_Witness ==
    /\ wait.condition_type = "stable" /\ wait.pc = "returned" /\ wait.result
    /\ wait.first_observed = 0 /\ wait.changes = 3 /\ wait.observed = 5

\* a LoopNet pass that read its snapshot
LoopNetDone == xpc = "done" /\ xsite = "loopnet" /\ source_ok
NoListings == [listings |-> <<>>, processed_urls |-> {}]

\* C15: a results page with one listing card holding address "123 Main St", price
\* "$500,000", type "Retail" and detail URL "/listing/1", and no location
\* element, gives exactly one record with those four values.
C15_SingleResult ==
    (/\ LoopNetDone
     /\ Len(page) = 1
     /\ page[1].kind = "card" /\ page[1].fields = SingleResultCard
     /\ Len(page[1].anchors) = 1 /\ page[1].anchors[1].href = LISTING_1) =>
        listings = <<Listing(<<"123", SP, "Main", SP, "St">>, <<"$", "500,000">>,
                             <<"Retail">>, LISTING_1)>>

\* an anchor with a non-empty href and a title that describes the listing
ValidDetailAnchor(n) ==
    /\ n.kind = "anchor"
    /\ Truthy(n.anchors[1].href)
    /\ n.anchors[1].title # None /\ Contains(n.anchors[1].title, MORE_DETAILS_SP)

\* C16: a later scan runs only if every earlier scan gave no record; a page of
\* N >= 1 valid detail anchors with distinct URLs and no card gives exactly N
\* records without the live-DOM scan being run.
C16_StrategyCascade ==
    LoopNetDone =>
        /\ used_scans.placard => LinkScan(page, NoListings).listings = <<>>
        /\ used_scans.live =>
               /\ used_scans.placard
               /\ PlacardScan(page, LinkScan(page, NoListings)).listings = <<>>
        /\ (/\ page # <<>>
            /\ \A i \in 1..Len(page) : ValidDetailAnchor(page[i])
            /\ \A i, j \in 1..Len(page) :
                   i # j => page[i].anchors[1].href # page[j].anchors[1].href) =>
               /\ Len(listings) = Len(page)
               /\ ~used_scans.live

\* two valid anchors with different URLs and no card gave two records, the
\* live DOM left alone
C16_Witness ==
    /\ LoopNetDone
    /\ Len(page) = 2 /\ ValidDetailAnchor(page[1]) /\ ValidDetailAnchor(page[2])
    /\ page[1].anchors[1].href # page[2].anchors[1].href
    /\ Len(listings) = 2 /\ ~used_scans.live

C21_StartFailurePropagates ==
    \A t \in Threads :
        (Finished(t) /\ srch[t].exc /\ srch[t].session = 0) => srch[t].pc = "raised"

\* C27: a name of the websites argument resolves exactly when its text before the
\* first dot, lower-cased, is a registered site key; when the argument is not
\* empty and no name resolves, no adapter is invoked and the call returns an
\* empty mapping (it does not search every site).
C27_NoFallbackToAllSites ==
    \A t \in Threads :
        (call[t].pc # "none" /\ call[t].websites.given /\ call[t].websites.names # <<>>) =>
            /\ {call[t].websites_to_search[i] : i \in 1..Len(call[t].websites_to_search)}
                   = Targeted(call[t].websites)
            /\ Targeted(call[t].websites) = {} =>
                   /\ call[t].invoked = <<>>
                   /\ srch[t].pc = "none"
                   /\ call[t].pc = "returned" =>
                          call[t].ret = [kind |-> "dict", list |-> <<>>, dict |-> <<>>]

\* a call whose only name is an unregistered site has returned
C27_Witness ==
    \E t \in Threads :
        /\ call[t].pc = "returned"
        /\ call[t].websites.names = << <<"zillow", ".", "com">> >>
        /\ call[t].ret.dict = <<>>

\* C24: what _remove_overlays raises does not stop the caller: a click_element
\* attempt in which it raised still invokes a click method, and an
\* input_text_with_wait call in which it raised still tries to focus the element.
C24_SuppressorFailureSwallowed ==
    /\ (click.pc \in {"loop", "returned"} /\ click.overlay_raised) => click.tried # <<>>
    /\ (input.pc = "returned" /\ input.overlay_raised) => input.focused

\* C30: within one click_element attempt the click methods are invoked in the
\* order script click, native click, action chain; a method is invoked only after
\* every earlier one of the attempt raised; and an attempt that got to the click
\* methods is counted as failed only after all three raised.
C30_ClickMethodOrder ==
    LET order == <<"script", "native", "action_chain">> IN
    /\ Len(click.tried) <= 3
    /\ \A i \in 1..Len(click.tried) : click.tried[i] = order[i]
    /\ click.raised = IF click.clicked THEN Len(click.tried) - 1 ELSE Len(click.tried)
    /\ (click.pc = "loop" /\ click.tried # <<>>) => click.raised = 3

\* a call returned True from the action chain of its second attempt, the script
\* click and the native click of that attempt having raised
C30_Witness ==
    /\ click.pc = "returned" /\ click.result
    /\ click.attempts = 2
    /\ click.tried = <<"script", "native", "action_chain">>
    /\ click.raised = 2

\* C25: input_text_with_wait does not raise; it returns False when the element
\* is not clickable in time or when a step raises past the method's own
\* fallbacks (the focus click, the clear, the third text-entry method after the
\* first two, the Enter keypress); it returns True only when a text-entry method
\* went through and, with press_enter, so did the Enter keypress.
C25_InputReturnsBoolean ==
    /\ input.pc # "raised"
    /\ input.pc = "returned" =>
          /\ (input.not_clickable \/ input.error \/ input.entries_raised = 3) => ~input.result
          /\ input.result =>
                /\ input.entry # 0
                /\ input.press_enter => input.enter_done
          /\ ~input.result => (input.not_clickable \/ input.error)

\* a call with press_enter returned True after its first two text-entry methods
\* raised and the Enter keypress went through
C25_Witness ==
    /\ input.pc = "returned" /\ input.result
    /\ input.press_enter /\ input.enter_done
    /\ input.entry = 3 /\ input.entries_raised = 2

\* the elements of the loaded document that carry the class advanced-filters-modal
FiltersModals == {i \in DOMAIN dom.elements : dom.elements[i].modal}

\* C22: every element carrying advanced-filters-modal that is in the document
\* before _remove_overlays is in it afterwards, whatever the document's shape;
\* and every overlay container or fixed-position div that neither carries that
\* class nor lies inside an element carrying it is removed.
C22_AllowListedModalSurvives ==
    dom.pc \in {"once", "twice"} =>
        /\ FiltersModals \subseteq dom.present
        /\ \A i \in DOMAIN dom.elements :
              ((dom.elements[i].overlay \/ dom.elements[i].fixed)
                  /\ ~ClosestModal(dom.elements, i)) => i \notin dom.present

\* C23: a second run of _remove_overlays leaves the document and the body as
\* the first run left them; and on a document with no overlay container and no
\* fixed-position div a run changes nothing, the body's overflow, position and
\* height included.
C23_IdempotentAndNoOpWhenNothingMatches ==
    /\ dom.pc = "twice" =>
          /\ dom.present = dom.once_present
          /\ dom.body = dom.once_body
    /\ (dom.pc = "once"
          /\ \A i \in DOMAIN dom.elements :
                ~dom.elements[i].overlay /\ ~dom.elements[i].fixed) =>
          /\ dom.present = DOMAIN dom.elements
          /\ dom.body = dom.loaded_body

\* the values a run of site that goes through to the end passes to update_progress
FullProgress(site, c) ==
    IF site = "loopnet"
    THEN <<5, 10, 20, 25, 30, 35>> \o LoopNetFilterMilestones(c) \o <<65, 70, 90, 100>>
    ELSE <<5, 10, 15, 20, 25>> \o MLSCriteriaMilestones(c) \o <<60, 65, 70, 80, 90, 100>>

\* C26: an adapter is handed the callback registered under its own site key and
\* no other, so that callback is called with the progress values of that site's
\* run and with nothing else; an adapter whose site has no callback, or a call
\* with no callbacks at all, is handed none, calls none, and a run that goes
\* through passes the same progress stages as with a callback.
C26_PerSiteProgress ==
    \A t \in Threads :
        srch[t].pc # "none" =>
            LET cbs == call[t].progress_callbacks
                registered == cbs.given /\ srch[t].site \in cbs.keys
            IN  /\ srch[t].callback = IF registered THEN srch[t].site ELSE NoCallback
                /\ srch[t].delivered = IF registered THEN srch[t].progress ELSE <<>>
                /\ Successful(t) =>
                       srch[t].progress = FullProgress(srch[t].site, srch[t].criteria)

\* in a call over both sites with a callback for loopnet only, the commercialmls
\* run went through to the end without calling anything
C26_Witness ==
    \E t \in Threads :
        /\ Successful(t) /\ srch[t].site = "commercialmls"
        /\ call[t].progress_callbacks = ProgressCallbacks(TRUE, {"loopnet"})
        /\ Len(call[t].invoked) = 2
        /\ srch[t].progress # <<>> /\ srch[t].delivered = <<>>

\* C28: on each unattended path that reads the saved configuration, a saved
\* "Investment" reaches search as "multifamily", and the adapter clicks the
\* multifamily checkbox.
C28_InvestmentMapsToMultifamily ==
    (types.pc = "selected"
        /\ \E i \in 1..Len(types.saved) : types.saved[i] = "Investment") =>
        /\ \E i \in 1..Len(types.property_types) : types.property_types[i] = "multifamily"
        /\ "multifamily" \in types.checked

\* C29: _close_driver with a driver quits it in the same step when not in debug
\* mode; in debug mode it first waits at the operator prompt, the session staying
\* open, and quits when the prompt has returned, hit EOF or raised; when it
\* returns the adapter's driver is None; and a call made after one has returned
\* changes neither the driver nor any session.
C29_CloseDriver ==
    /\ [](\A t \in Threads :
            /\ srch[t].pc = "prompt" =>
                  debug_mode /\ BrowserUp(t) /\ sessions[driver[Inst(t)]].open
            /\ srch[t].pc = "return" => driver[Inst(t)] = NoDriver)
    /\ [][\A t \in Threads :
            /\ (srch[t].pc = "finally" /\ srch'[t] # srch[t]) =>
                  IF ~BrowserUp(t) \/ srch[t].closes >= 1
                  THEN srch'[t].pc = "return" /\ UNCHANGED <<driver, sessions>>
                  ELSE IF debug_mode
                  THEN srch'[t].pc = "prompt" /\ UNCHANGED <<driver, sessions>>
                  ELSE /\ srch'[t].pc = "return"
                       /\ ~sessions'[driver[Inst(t)]].open
            /\ (srch[t].pc = "prompt" /\ srch'[t] # srch[t]) =>
                  /\ srch'[t].pc = "return"
                  /\ srch'[t].prompt \in {"returned", "eof", "error"}
                  /\ ~sessions'[driver[Inst(t)]].open]_vars

\* in debug mode a second call has returned, the first having quit the session
\* after the operator prompt ended with EOF
C29_Witness ==
    \E t \in Threads :
        /\ debug_mode
        /\ srch[t].pc = "return" /\ srch[t].closes = 2
        /\ srch[t].prompt = "eof"
        /\ srch[t].session # 0 /\ ~sessions[srch[t].session].open

\* C31: in every click_element attempt the overlay removal comes first, then the
\* element is located and scrolled to the centre of the viewport, and a click
\* method is invoked only after all three: the steps made in the attempt are a
\* prefix of that order, and no click method of the attempt has run (nor is one
\* about to) unless the attempt's overlay removal and scroll have been made
C31_SuppressorScrollThenClick ==
    LET order == <<"overlays", "locate", "scroll">>
    IN  /\ Len(click.prepared) <= 3
        /\ \A i \in 1..Len(click.prepared) : click.prepared[i] = order[i]
        /\ (click.tried # <<>> \/ click.pc = "methods") => click.prepared = order

\* a second attempt in which a click method has run after the three steps
C31_Witness ==
    /\ click.attempts >= 2
    /\ click.tried # <<>>
    /\ click.prepared = <<"overlays", "locate", "scroll">>

\* C32: in the LoopNet adapter, a form-filling stage whose interaction primitive
\* reported failure has been followed by a call of _try_close_popup (and a
\* second try of the stage) before the run moves on to the stages after it
C32_FailedStageRetriedAfterPopupClose ==
    \A t \in DOMAIN srch :
        (/\ srch[t].site = "loopnet"
         /\ srch[t].pc \in {"for_sale", "property_types", "filters"}
         /\ srch[t].failed)
        => srch[t].popup_closes >= 1

\* the stages of the search form, in the order the adapters go through them
StageOrder ==
    <<"navigate", "location", "for_sale", "types", "price", "date", "submit", "extract">>

\* the position of a stage in StageOrder
StageIndex(name) == CHOOSE i \in 1..Len(StageOrder) : StageOrder[i] = name

\* how many times x occurs in the sequence s
Occurrences(s, x) == Cardinality({i \in 1..Len(s) : s[i] = x})

\* C33: both adapters go through their stages in the fixed order navigate,
\* location, for-sale, property types, price, date, submit, extract, each at most
\* once; a run that reaches the submit stage has gone through the price stage
\* exactly when min_price or max_price was given and through the date stage
\* exactly when start_date was given; and once the property type stage is done,
\* each requested type the site's table knows has had one checkbox click and
\* the types it does not know none
C33_StageOrderAndConditions ==
    \A t \in DOMAIN srch :
        LET f == srch[t]
            has(name) == \E i \in 1..Len(f.stages) : f.stages[i] = name
        IN  /\ \A i \in 1..Len(f.stages) : \E k \in 1..Len(StageOrder) :
                    f.stages[i] = StageOrder[k]
            /\ \A i, j \in 1..Len(f.stages) :
                    i < j => StageIndex(f.stages[i]) < StageIndex(f.stages[j])
            /\ has("price") => (f.criteria.min_price \/ f.criteria.max_price)
            /\ has("date") => f.criteria.start_date
            /\ has("submit") =>
                    /\ has("price") <=> (f.criteria.min_price \/ f.criteria.max_price)
                    /\ has("date") <=> f.criteria.start_date
                    /\ has("navigate") /\ has("location") /\ has("for_sale")
                    /\ has("types")
            /\ has("extract") => has("submit")
            /\ has("types") =>
                    \A i \in 1..Len(f.property_types) :
                        LET key == LowerSym(f.property_types[i])
                        IN  Occurrences(f.checkbox_clicks, key)
                                = IF key \in {"multifamily", "retail", "industrial", "office"}
                                  THEN 1 ELSE 0
            /\ ~has("types") => f.checkbox_clicks = <<>>

\* a CommercialMLS run with only a maximum price that returned after clicking one
\* checkbox, skipping an unknown type and going through every stage but the date
C33_Witness ==
    \E t \in DOMAIN srch :
        /\ srch[t].pc = "returned"
        /\ srch[t].site = "commercialmls"
        /\ srch[t].criteria = SearchCriteria(FALSE, TRUE, FALSE)
        /\ srch[t].property_types = <<"Office", "Land">>
        /\ srch[t].checkbox_clicks = <<"office">>
        /\ srch[t].stages = <<"navigate", "location", "for_sale", "types",
                              "price", "submit", "extract">>

\* C36: the progress value 1.0 is among the emitted values only when the
\* extractor has returned; a run that left by an early return or through the
\* except clause has not emitted it; and no value is emitted once _close_driver
\* has been called
C36_FullProgressOnlyAfterExtraction ==
    \A t \in DOMAIN srch :
        LET f == srch[t]
            full == \E i \in 1..Len(f.progress) : f.progress[i] = 100
        IN  /\ full => (f.extractions >= 1 /\ f.progress[Len(f.progress)] = 100)
            /\ (f.early \/ f.exc) => ~full
            /\ ~f.late
            /\ f.closes > 0 => f.pc \in {"return", "returned", "raised"}

\* a run that ended through the except clause after values had been emitted,
\* its session closed, next to a run of the other site that reported 1.0
C36_Witness ==
    \E t \in DOMAIN srch :
        /\ srch[t].pc = "returned" /\ srch[t].closes = 1
        /\ srch[t].exc
        /\ Len(srch[t].progress) >= 3
        /\ \A i \in 1..Len(srch[t].progress) : srch[t].progress[i] # 100

\* the URLs of the records in a list of listings
UrlsOf(ls) == {ls[i].url : i \in 1..Len(ls)}

\* C34: the dedup set does not outlive an extraction call: a pass returns the
\* same records as every earlier pass of the process that was run on the same
\* results page with the same answers from the browser, whatever ran in between;
\* and what a pass returns is what the scan gives from an empty set, so no URL is
\* held back because an earlier run or the other site has seen it
C34_DedupSetLocalToOneCall ==
    xpc = "done" =>
        /\ \A i \in 1..Len(passes) :
               (/\ passes[i].site = xsite
                /\ passes[i].page = page
                /\ passes[i].grid = grid
                /\ passes[i].live = live_dom
                /\ passes[i].source_ok = source_ok)
               => passes[i].listings = listings
        /\ (xsite = "commercialmls" /\ grid.container_ok)
               => listings = GridScanFrom(NoListings, grid.cards, 1).listings
        /\ (xsite = "loopnet" /\ source_ok /\ LinkScan(page, NoListings).listings # <<>>)
               => listings = LinkScan(page, NoListings).listings

\* a third pass on the page of the first one, after the other site's extractor
\* returned a record with a URL this pass returns too
C34_Witness ==
    /\ xpc = "done"
    /\ Len(passes) = 2
    /\ passes[1].site = xsite /\ passes[1].page = page /\ passes[1].grid = grid
    /\ passes[1].live = live_dom /\ passes[1].source_ok = source_ok
    /\ passes[2].site # xsite
    /\ UrlsOf(passes[2].listings) \cap UrlsOf(listings) # {}
    /\ Len(listings) = 2

C35_OneRunPerWindow ==
    /\ ~svc.overlapped
    /\ svc.started <= 1

C37_TaskKeptOnFailure ==
    (sched.pc = "idle" /\ sched.result = "False" /\ sched.before.exists)
        => sched.task = sched.before

\* C39: an adapter run in unattended mode terminates: it never waits at the
\* operator prompt, it goes through no stage twice and through no more stages
\* than there are, and a search that has begun reaches the end of its return
\* statement
C39_UnattendedRunTerminates ==
    /\ [](\A t \in Threads :
            LET f == srch[t]
            IN  /\ ~debug_mode => f.pc # "prompt"
                /\ \A i, j \in 1..Len(f.stages) : f.stages[i] = f.stages[j] => i = j
                /\ Len(f.stages) <= Len(StageOrder))
    /\ \A t \in Threads : (~debug_mode /\ srch[t].pc # "none") ~> Finished(t)

\* an unattended run that went through every stage up to extraction, closed its
\* browser and returned
C39_Witness ==
    \E t \in Threads :
        /\ ~debug_mode /\ srch[t].pc = "returned"
        /\ srch[t].closes = 1 /\ srch[t].prompt = ""
        /\ Len(srch[t].stages) >= 6
        /\ srch[t].stages[Len(srch[t].stages)] = "extract"

====
